---- MODULE Spec2Model ----
(***************************************************************************)
(* Model of the self-healing memory system: the healer's decision policy,  *)
(* plan generation, gated action execution and effectiveness validation    *)
(* (src/app/healer_agent.py), the monitor's classification                 *)
(* (src/app/monitor_agent.py), the predictor's trend extrapolation         *)
(* (src/app/predictor_agent.py) and the event store                        *)
(* (src/app/rag_pipeline.py).                                              *)
(*                                                                         *)
(* Units.  used_percent is a float in the source; here a percentage is an  *)
(* integer number of quarter percents (Pct(80) is 80%, PctHalf(80) is      *)
(* 80.5%), so that the strict comparisons of the source are told apart     *)
(* from non-strict ones and the trend (a half of a difference) is exact.   *)
(* Probabilities and effectiveness scores are in tenths (8 is 0.8).        *)
(* Timestamps are the values of a clock that advances with every record.   *)
(*                                                                         *)
(* The variable call holds one operation invocation: its name and its      *)
(* arguments while phase is "call", and with them what the environment     *)
(* answered and what the operation returned once phase is "return".        *)
(***************************************************************************)
EXTENDS Integers, Sequences, FiniteSets, TLC

VARIABLES call, now, predictions, predictions_file, memory_events,
          memory_events_file, latest_prediction, prediction_interval,
          healing_events, healing_events_file, writers,
          agent, running, agent_interval, threads, stopper,
          healing_history, cache, external_calls, api_key, obtained

vars == <<call, now, predictions, predictions_file, memory_events,
          memory_events_file, latest_prediction, prediction_interval,
          healing_events, healing_events_file, writers,
          agent, running, agent_interval, threads, stopper,
          healing_history, cache, external_calls, api_key, obtained>>

\* ---------------------------------------------------------------- bounds
\* loop threads an agent's start operation creates
MaxThreads == 1

\* records the clients of the event store append after construction
MaxAppends == 2

\* lines the writers of one log file begin to write
MaxWrites == 3

\* ticks of an agent loop in a behaviour
MaxTicks == 2

\* calls of LLMProcessor.process in a behaviour
MaxCalls == 3

\* largest memory counter /proc/meminfo reports, in pages of 16 kB
MaxCounter == 3

\* longest action list of a plan or of a call of execute_actions
MaxActions == 2

\* most predictions the event store is filled with
MaxPredictions == 3

\* most memory events the event store is filled with
MaxEvents == 4

\* longest history handed to predict_memory_condition
MaxHistoryLen == 3

\* most predictions the predictor loop logs
MaxLogged == 1

\* ----------------------------------------------------------------- units
Pct(n) == 4 * n

PctHalf(n) == 4 * n + 2

\* a key that a Python dict does not hold
Absent == "<absent>"

Range(s) == {s[i] : i \in 1..Len(s)}

\* every sequence over S of length at most n
SeqsUpTo(S, n) == UNION {[1..k -> S] : k \in 0..n}

\* the values of used_percent the operations are exercised on
PercentGrid ==
    {0, Pct(50), Pct(60), PctHalf(60), Pct(70), Pct(75), PctHalf(75), Pct(80),
     PctHalf(80), Pct(85), PctHalf(85), Pct(90), PctHalf(90), Pct(95),
     PctHalf(95), Pct(100)}

\* 500 * 1024 * 1024 bytes
MiB500 == 500 * 1024 * 1024

FreeGrid == {0, MiB500 - 1, MiB500, 2 * MiB500}

Stats(p, f) == [used_percent |-> p, free |-> f]

\* what get_memory_stats() answers; used_percent 0 is also the zero-filled
\* sample of a failed acquisition
StatsProvider ==
    {Stats(0, 0), Stats(Pct(60), MiB500), Stats(Pct(70), MiB500),
     Stats(PctHalf(90), MiB500 - 1)}

\* samples handed to the healer's public operations (the healer never
\* reads free)
HealerSamples == {Stats(p, MiB500) : p \in PercentGrid}

\* ------------------------------------------------------- healer: actions
Action(t, p, c) == [action_type |-> t, priority |-> p, command |-> c]

\* actions a caller or an enhancer reply can name
ActionUniverse ==
    {Action("clear_cache", "high", Absent),
     Action("clear_cache", "medium", "rm -rf /"),
     Action("defragment", "high", Absent),
     Action("optimize", "low", Absent),
     Action("custom_command", "high", "sync"),
     Action("custom_command", "medium", "echo 3 > /proc/sys/vm/drop_caches"),
     Action("custom_command", "high", "rm -rf /"),
     Action("custom_command", "low", "sync; rm -rf /"),
     Action("custom_command", "high", Absent),
     Action("reboot", "high", "sync")}

ActionLists == SeqsUpTo(ActionUniverse, MaxActions)

\* what the host does with one action: release_memory_cache() returning
\* True or False, subprocess.run(check=True) returning or raising
Outcomes == {"ok", "fail"}

exec_allowed_commands_mut == {"sync", "echo 3 > /proc/sys/vm/drop_caches", "rm -rf /"}

\* allowed_commands of execute_actions
exec_allowed_commands == {"sync", "echo 3 > /proc/sys/vm/drop_caches"}

\* the branch of execute_actions that passes the command to the shell
RunsShell(action) ==
    /\ action.action_type = "custom_command"
    /\ action.command # Absent
    /\ action.command \in exec_allowed_commands

\* one iteration of the loop of execute_actions: the ActionResult
ActionResult(action, outcome) ==
    LET t == action.action_type
        r(s, d) == [action_type |-> t, success |-> s, details |-> d]
    IN  IF t = "clear_cache"
        THEN IF outcome = "ok"
             THEN r(TRUE, "Memory cache cleared successfully")
             ELSE r(FALSE, "Failed to clear memory cache")
        ELSE IF t = "defragment" THEN r(TRUE, "Memory defragmentation completed")
        ELSE IF t = "optimize" THEN r(TRUE, "Memory optimization completed")
        ELSE IF t = "custom_command" /\ action.command # Absent
        THEN IF action.command \in exec_allowed_commands
             THEN IF outcome = "ok"
                  THEN r(TRUE, "Custom command executed")
                  ELSE r(FALSE, "Error executing action")
             ELSE r(FALSE, "Command not in allowed list")
        ELSE r(FALSE, "Unknown action type")

RECURSIVE AllSucceeded(_)
AllSucceeded(rs) ==
    IF rs = <<>> THEN TRUE
    ELSE IF ~Head(rs).success THEN FALSE ELSE AllSucceeded(Tail(rs))

RECURSIVE RunLoop_mut(_, _, _)
RunLoop_mut(actions, outcomes, i) ==
    IF i > Len(actions) THEN <<>>
    ELSE LET r == ActionResult(actions[i], outcomes[i])
         IN  IF r.success THEN <<r>> \o RunLoop_mut(actions, outcomes, i + 1)
             ELSE <<r>>

RECURSIVE RunLoop(_, _, _)
\* the for loop of execute_actions over actions[i..]: every action gets its
\* ActionResult, a failure or an exception of one action is recorded and
\* the loop goes on
RunLoop(actions, outcomes, i) ==
    IF i > Len(actions) THEN <<>>
    ELSE <<ActionResult(actions[i], outcomes[i])>> \o RunLoop(actions, outcomes, i + 1)

RECURSIVE ShellLoop(_, _)
\* the commands execute_actions hands to subprocess.run(shell=True)
ShellLoop(actions, i) ==
    IF i > Len(actions) THEN <<>>
    ELSE (IF RunsShell(actions[i]) THEN <<actions[i].command>> ELSE <<>>)
         \o ShellLoop(actions, i + 1)

\* execute_actions(actions): memory_before and memory_after are the two
\* samples it takes, outcomes what the host does with each action
execute_actions(actions, outcomes, before, after) ==
    LET executed == RunLoop(actions, outcomes, 1)
    IN  [executed_actions |-> executed,
         memory_before |-> before,
         memory_after |-> after,
         memory_change |-> [before_percent |-> before.used_percent,
                            after_percent |-> after.used_percent,
                            difference |-> before.used_percent - after.used_percent],
         success |-> AllSucceeded(executed)]

priority_actions_mut(plan_actions) ==
    SelectSeq(plan_actions, LAMBDA a : a.priority # "low")

\* priority_actions of execute_priority_actions
priority_actions(plan_actions) ==
    SelectSeq(plan_actions, LAMBDA a : a.priority = "high")

\* ------------------------------------------------ healer: plan generation
\* replies of the enhancer (LLMProcessor.process) as the healer parses
\* them: an error text or any text that is not JSON, a JSON array, or a
\* JSON object with optional actions, severity and description.  An
\* actions value that is not a list of objects is Malformed.
Malformed == "<malformed>"

PlanReplies ==
    {[kind |-> "error"], [kind |-> "text"], [kind |-> "array"]}
    \cup [kind : {"object"}, has_actions : {Absent, Malformed}, actions : {<<>>},
          severity : {Absent, "", "low"}, description : {Absent, "plan"}]
    \cup [kind : {"object"}, has_actions : {"list"}, actions : ActionLists,
          severity : {Absent, "", "low"}, description : {Absent, "plan"}]

\* the empty dict
EmptyPlan == [kind |-> "dict", has_actions |-> Absent, actions |-> <<>>,
              severity |-> Absent, description |-> Absent]

\* a non-empty JSON array that json.loads returned and that
\* _llm_enhanced_plan passes on unchanged
ArrayPlan == [kind |-> "array"]

\* allowed_commands of _llm_enhanced_plan
plan_allowed_commands == {"sync", "echo 3 > /proc/sys/vm/drop_caches"}

\* the test that lets an action of the reply into safe_actions
IsSafeAction(action) ==
    /\ action.action_type \in {"clear_cache", "defragment", "optimize", "custom_command"}
    /\ ~ (/\ action.action_type = "custom_command"
          /\ action.command # Absent
          /\ action.command \notin plan_allowed_commands)

\* _llm_enhanced_plan: the parsed and filtered reply
llm_enhanced_plan(reply) ==
    IF reply.kind \in {"error", "text"} THEN EmptyPlan
    ELSE IF reply.kind = "array" THEN ArrayPlan
    ELSE IF reply.has_actions = Malformed THEN EmptyPlan
    ELSE [kind |-> "dict",
          has_actions |-> reply.has_actions,
          actions |-> SelectSeq(reply.actions, IsSafeAction),
          severity |-> reply.severity,
          description |-> reply.description]

\* truth value of the object _llm_enhanced_plan returned
IsTruthyPlan(enhanced_plan) ==
    \/ enhanced_plan.kind = "array"
    \/ /\ enhanced_plan.kind = "dict"
       /\ \/ enhanced_plan.has_actions # Absent
          \/ enhanced_plan.severity # Absent
          \/ enhanced_plan.description # Absent

\* truth value of a string value of the reply
IsTruthy(value) == value # Absent /\ value # ""

PlanAction(t, p) == Action(t, p, Absent)

rule_based_plan_mut(used_percent) ==
    IF used_percent >= Pct(95)
    THEN [severity |-> "critical",
          actions |-> <<PlanAction("clear_cache", "high"), PlanAction("defragment", "high")>>]
    ELSE IF used_percent > Pct(85)
    THEN [severity |-> "high", actions |-> <<PlanAction("clear_cache", "medium")>>]
    ELSE IF used_percent > Pct(75)
    THEN [severity |-> "moderate", actions |-> <<PlanAction("optimize", "low")>>]
    ELSE [severity |-> Absent, actions |-> <<>>]

\* the severity bands of generate_healing_plan
rule_based_plan(used_percent) ==
    IF used_percent > Pct(95)
    THEN [severity |-> "critical",
          actions |-> <<PlanAction("clear_cache", "high"), PlanAction("defragment", "high")>>]
    ELSE IF used_percent > Pct(85)
    THEN [severity |-> "high", actions |-> <<PlanAction("clear_cache", "medium")>>]
    ELSE IF used_percent > Pct(75)
    THEN [severity |-> "moderate", actions |-> <<PlanAction("optimize", "low")>>]
    ELSE [severity |-> Absent, actions |-> <<>>]

generate_healing_plan_mut(memory_stats, rag, reply) ==
    LET base == rule_based_plan(memory_stats.used_percent)
        basic == [severity |-> base.severity,
                  actions |-> IF memory_stats.used_percent > Pct(85)
                              THEN base.actions ELSE <<>>,
                  description |-> Absent, error |-> FALSE]
        enhanced_plan == llm_enhanced_plan(reply)
    IN  IF ~rag \/ ~IsTruthyPlan(enhanced_plan) THEN basic
        ELSE IF enhanced_plan.kind = "array"
        THEN [severity |-> Absent,
              actions |-> <<PlanAction("clear_cache", "high")>>,
              description |-> Absent,
              error |-> TRUE]
        ELSE [severity |-> IF IsTruthy(enhanced_plan.severity)
                           THEN enhanced_plan.severity ELSE base.severity,
              actions |-> IF enhanced_plan.has_actions # Absent /\ enhanced_plan.actions # <<>>
                          THEN enhanced_plan.actions ELSE basic.actions,
              description |-> IF IsTruthy(enhanced_plan.description)
                              THEN enhanced_plan.description ELSE Absent,
              error |-> FALSE]

\* generate_healing_plan(memory_stats): rag tells whether the agent has an
\* event store (the enhancer is consulted only then), reply is what the
\* enhancer answers
generate_healing_plan(memory_stats, rag, reply) ==
    LET base == rule_based_plan(memory_stats.used_percent)
        basic == [severity |-> base.severity, actions |-> base.actions,
                  description |-> Absent, error |-> FALSE]
        enhanced_plan == llm_enhanced_plan(reply)
    IN  IF ~rag \/ ~IsTruthyPlan(enhanced_plan) THEN basic
        ELSE IF enhanced_plan.kind = "array"
        THEN \* enhanced_plan.items() raises: the except branch
             [severity |-> Absent,
              actions |-> <<PlanAction("clear_cache", "high")>>,
              description |-> Absent,
              error |-> TRUE]
        ELSE [severity |-> IF IsTruthy(enhanced_plan.severity)
                           THEN enhanced_plan.severity ELSE base.severity,
              actions |-> IF enhanced_plan.has_actions # Absent /\ enhanced_plan.actions # <<>>
                          THEN enhanced_plan.actions ELSE base.actions,
              description |-> IF IsTruthy(enhanced_plan.description)
                              THEN enhanced_plan.description ELSE Absent,
              error |-> FALSE]

\* generate_urgent_healing_plan(): memory_stats is the sample it takes (and
\* does not use)
generate_urgent_healing_plan(memory_stats) ==
    [severity |-> "critical",
     actions |-> <<PlanAction("clear_cache", "high"), PlanAction("defragment", "high")>>,
     description |-> "Urgent healing plan for critical memory condition",
     error |-> FALSE]

\* ---------------------------------------------------- healer: validation
validate_healing_results_mut(results) ==
    LET difference == results.memory_before.used_percent - results.memory_after.used_percent
    IN  IF difference >= Pct(10) THEN [effective |-> TRUE, effectiveness_score |-> 9]
        ELSE IF difference > Pct(5) THEN [effective |-> TRUE, effectiveness_score |-> 7]
        ELSE IF difference > 0 THEN [effective |-> TRUE, effectiveness_score |-> 3]
        ELSE [effective |-> FALSE, effectiveness_score |-> 0]

\* validate_healing_results(results)
validate_healing_results(results) ==
    LET difference == results.memory_before.used_percent - results.memory_after.used_percent
    IN  IF difference > Pct(10) THEN [effective |-> TRUE, effectiveness_score |-> 9]
        ELSE IF difference > Pct(5) THEN [effective |-> TRUE, effectiveness_score |-> 7]
        ELSE IF difference > 0 THEN [effective |-> TRUE, effectiveness_score |-> 3]
        ELSE [effective |-> FALSE, effectiveness_score |-> 0]

\* ------------------------------------------------------------ event store
\* sorted(records, key=timestamp, reverse=True): the sort is stable, so a
\* record comes behind every record with a larger timestamp and behind the
\* earlier records with the same timestamp (a list in strictly rising order
\* comes out reversed)
SortedDesc(records) ==
    LET n == Len(records)
        place == [i \in 1..n |->
                    1 + Cardinality({j \in 1..n :
                          \/ records[j].timestamp > records[i].timestamp
                          \/ records[j].timestamp = records[i].timestamp /\ j < i})]
    IN  IF \A i \in 1..n - 1 : records[i].timestamp < records[i + 1].timestamp
        THEN [k \in 1..n |-> records[n + 1 - k]]
        ELSE [k \in 1..n |-> records[CHOOSE i \in 1..n : place[i] = k]]

\* records[:limit]
Take(records, limit) ==
    SubSeq(records, 1, IF Len(records) < limit THEN Len(records) ELSE limit)

\* records[-n:]
LastN(records, n) ==
    SubSeq(records, IF Len(records) > n THEN Len(records) - n + 1 ELSE 1, Len(records))

\* the records of an index that were made after construction (the clock is
\* 1 at construction; what the log files held before is older)
SinceConstruction(records) == SelectSeq(records, LAMBDA r : r.timestamp >= 1)

get_recent_predictions_mut(index, limit) == Take(index, limit)

\* RagPipeline.get_recent_predictions(limit)
get_recent_predictions(index, limit) == Take(SortedDesc(index), limit)

get_relevant_memory_events_mut(index, limit) == Take(index, limit)

\* RagPipeline.get_relevant_memory_events(memory_stats, limit)
get_relevant_memory_events(index, limit) == Take(SortedDesc(index), limit)

\* ------------------------------------------------ healer: ShouldHeal
Issue(sev, prob) == [severity |-> sev, probability |-> prob]

IsCriticalIssue(issue) == issue.severity = "critical" /\ issue.probability > 7

should_execute_healing_mut(memory_stats, rag, index) ==
    \/ memory_stats.used_percent > Pct(80)
    \/ /\ rag
       /\ \E i \in 1..Len(index) :
             \E j \in 1..Len(index[i].predicted_issues) :
                IsCriticalIssue(index[i].predicted_issues[j])

\* _should_execute_healing(memory_stats): index is the store's list of
\* predictions
should_execute_healing(memory_stats, rag, index) ==
    \/ memory_stats.used_percent > Pct(80)
    \/ /\ rag
       /\ LET recent_predictions == get_recent_predictions(index, 1)
          IN  /\ recent_predictions # <<>>
              /\ \E j \in 1..Len(recent_predictions[1].predicted_issues) :
                    IsCriticalIssue(recent_predictions[1].predicted_issues[j])

\* ---------------------------------------------------------------- monitor
\* replies of the enhancer as the monitor parses them
AnalysisReplies ==
    {[kind |-> "error"], [kind |-> "text"], [kind |-> "array"]}
    \cup [kind : {"object"}, has_anomaly_detected : {FALSE}, anomaly_detected : {FALSE},
          severity : {Absent, "normal", "critical"}]
    \cup [kind : {"object"}, has_anomaly_detected : {TRUE}, anomaly_detected : BOOLEAN,
          severity : {Absent, "normal", "critical"}]

\* the first if chain of analyze_memory_conditions
usage_level(used_percent) ==
    IF used_percent > Pct(90) THEN "critical"
    ELSE IF used_percent > Pct(80) THEN "high"
    ELSE IF used_percent > Pct(60) THEN "moderate"
    ELSE "normal"

\* the condition of the first anomaly branch
critical_trigger(used_percent, free_memory) ==
    used_percent > Pct(90) /\ free_memory < 500 * 1024 * 1024

\* the condition of the second anomaly branch
high_trigger(used_percent) == used_percent > Pct(80)

anomaly_mut(used_percent, free_memory) ==
    IF high_trigger(used_percent)
    THEN [anomaly_detected |-> TRUE, severity |-> "high"]
    ELSE IF critical_trigger(used_percent, free_memory)
    THEN [anomaly_detected |-> TRUE, severity |-> "critical"]
    ELSE [anomaly_detected |-> FALSE, severity |-> "normal"]

\* the second if chain of analyze_memory_conditions
anomaly(used_percent, free_memory) ==
    IF critical_trigger(used_percent, free_memory)
    THEN [anomaly_detected |-> TRUE, severity |-> "critical"]
    ELSE IF high_trigger(used_percent)
    THEN [anomaly_detected |-> TRUE, severity |-> "high"]
    ELSE [anomaly_detected |-> FALSE, severity |-> "normal"]

\* analyze_memory_conditions(memory_stats): the rule-based analysis,
\* updated with the enhancer's reply when the agent has an event store
analyze_memory_conditions(memory_stats, rag, reply) ==
    LET a == anomaly(memory_stats.used_percent, memory_stats.free)
        analysis == [anomaly_detected |-> a.anomaly_detected,
                     severity |-> a.severity,
                     usage_level |-> usage_level(memory_stats.used_percent),
                     error |-> FALSE]
    IN  IF ~rag \/ reply.kind \in {"error", "text"} THEN analysis
        ELSE IF reply.kind = "array"
        THEN \* analysis.update(a list) raises: the except branch
             [anomaly_detected |-> FALSE, severity |-> "unknown",
              usage_level |-> Absent, error |-> TRUE]
        ELSE [anomaly_detected |-> IF reply.has_anomaly_detected
                                   THEN reply.anomaly_detected
                                   ELSE analysis.anomaly_detected,
              severity |-> IF reply.severity # Absent THEN reply.severity
                           ELSE analysis.severity,
              usage_level |-> analysis.usage_level,
              error |-> FALSE]

\* -------------------------------------------------------------- predictor
Min(a, b) == IF a < b THEN a ELSE b

Max(a, b) == IF a > b THEN a ELSE b

\* the issue lists an enhancer reply is drawn from
ReplyIssueLists == {<<>>, <<Issue("low", 5)>>, <<Issue("critical", 9)>>}

\* the predicted_memory_usage_1h and predicted_issues keys a reply object
\* may hold
ReplyUsage1h == {[has |-> FALSE, value |-> 0], [has |-> TRUE, value |-> 0],
                 [has |-> TRUE, value |-> Pct(50)]}

ReplyIssues == {[has |-> FALSE, value |-> <<>>]}
               \cup {[has |-> TRUE, value |-> il] : il \in ReplyIssueLists}

\* replies of the enhancer as the predictor parses them
PredictionReplies ==
    {[kind |-> "error"], [kind |-> "text"], [kind |-> "array"]}
    \cup {[kind |-> "object", has_1h |-> u.has, usage_1h |-> u.value,
           has_issues |-> i.has, issues |-> i.value] :
            u \in ReplyUsage1h, i \in ReplyIssues}

\* recent_values: used_percent of historical_data[-3:]
recent_values(historical_data) ==
    LET last == LastN(historical_data, 3)
    IN  [i \in 1..Len(last) |-> last[i].stats.used_percent]

\* all(recent_values)
AllNonZero(values) == \A i \in 1..Len(values) : values[i] # 0

\* trend: the mean of the successive differences of the three values
trend(values) == ((values[2] - values[1]) + (values[3] - values[2])) \div 2

BaselineIssues_mut(predicted_value_1h) ==
    IF predicted_value_1h >= Pct(90) THEN <<Issue("critical", 8)>>
    ELSE IF predicted_value_1h > Pct(80) THEN <<Issue("high", 7)>>
    ELSE <<>>

\* the issue the trend analysis adds for a predicted value
BaselineIssues(predicted_value_1h) ==
    IF predicted_value_1h > Pct(90) THEN <<Issue("critical", 8)>>
    ELSE IF predicted_value_1h > Pct(80) THEN <<Issue("high", 7)>>
    ELSE <<>>

\* the basic prediction of predict_memory_condition, before the enhancer
basic_prediction(current_stats, historical_data, interval, time) ==
    LET values == recent_values(historical_data)
        current_value == current_stats.used_percent
        empty == [timestamp |-> time, current_memory_used |-> current_value,
                  has_1h |-> FALSE, predicted_memory_usage_1h |-> 0,
                  predicted_issues |-> <<>>, error |-> FALSE]
    IN  IF Len(historical_data) >= 3 /\ AllNonZero(values)
        THEN LET predicted_value_1h == current_value + trend(values) * (3600 \div interval)
             IN  [empty EXCEPT !.has_1h = TRUE,
                               !.predicted_memory_usage_1h =
                                   Min(Pct(100), Max(0, predicted_value_1h)),
                               !.predicted_issues = BaselineIssues(predicted_value_1h)]
        ELSE empty

\* the merge loop of predict_memory_condition: a key of the reply is
\* written when the prediction lacks it or the reply's value is truthy
merge_prediction(prediction, enhanced_prediction) ==
    [prediction EXCEPT
        !.has_1h = prediction.has_1h \/ enhanced_prediction.has_1h,
        !.predicted_memory_usage_1h =
            IF enhanced_prediction.has_1h
               /\ (~prediction.has_1h \/ enhanced_prediction.usage_1h # 0)
            THEN enhanced_prediction.usage_1h ELSE @,
        !.predicted_issues =
            IF enhanced_prediction.has_issues /\ enhanced_prediction.issues # <<>>
            THEN enhanced_prediction.issues ELSE @]

\* predict_memory_condition(current_stats, historical_data)
predict_memory_condition(current_stats, historical_data, interval, reply, time) ==
    LET prediction == basic_prediction(current_stats, historical_data, interval, time)
    IN  IF reply.kind \in {"error", "text"} THEN prediction
        ELSE IF reply.kind = "array"
        THEN \* enhanced_prediction.items() raises: the except branch
             [timestamp |-> time, current_memory_used |-> 0, has_1h |-> FALSE,
              predicted_memory_usage_1h |-> 0, predicted_issues |-> <<>>,
              error |-> TRUE]
        ELSE merge_prediction(prediction, reply)

\* ================================================================ state
store_vars == <<predictions, predictions_file, memory_events, memory_events_file,
                healing_events, healing_events_file, writers>>

predictor_vars == <<latest_prediction, prediction_interval>>

\* the loop control of the agent under study: its running flag, its
\* *_interval attribute, the loop threads its start operation created and
\* the caller that is inside its stop operation
agent_vars == <<agent, running, agent_interval, threads, stopper>>

healer_vars == <<healing_history>>

\* an LLMProcessor: the files of its cache directory, the number of requests
\* it has posted, whether it has an API key, and (a history variable) the
\* response that process() last got from _process_with_mistral for each
\* request, with the time it got it
cache_vars == <<cache, external_calls, api_key, obtained>>

\* the agents and the event store right after construction
Constructed ==
    /\ now = 1
    /\ predictions = <<>>
    /\ predictions_file = <<>>
    /\ memory_events = <<>>
    /\ memory_events_file = <<>>
    /\ latest_prediction = <<>>
    /\ healing_events = <<>>
    /\ healing_events_file = <<>>
    /\ writers = <<>>
    /\ healing_history = <<>>
    /\ cache = <<>>
    /\ external_calls = 0
    /\ api_key = FALSE
    /\ obtained = <<>>

\* the *_interval attribute an agent is constructed with
DefaultInterval(a) ==
    CASE a = "monitor" -> 60
      [] a = "predictor" -> 300
      [] a = "healer" -> 120

\* the agent a right after construction: not running, no thread
AgentConstructed(a) ==
    /\ agent = a
    /\ running = FALSE
    /\ agent_interval = DefaultInterval(a)
    /\ threads = <<>>
    /\ stopper = [pc |-> "idle", waited |-> 0]

Calling(op) == call.op = op /\ call.phase = "call"

Returned(op) == call.op = op /\ call.phase = "return"

\* ------------------------------------------------------ healer operations
HealerCalls ==
    {[op |-> "execute_actions", phase |-> "call", actions |-> a] : a \in ActionLists}
    \cup {[op |-> "execute_priority_actions", phase |-> "call", plan_actions |-> a] :
            a \in ActionLists}
    \cup {[op |-> "_llm_enhanced_plan", phase |-> "call", reply |-> r] : r \in PlanReplies}
    \cup {[op |-> "generate_urgent_healing_plan", phase |-> "call", memory_stats |-> m] :
            m \in HealerSamples}
    \cup {[op |-> "generate_healing_plan", phase |-> "call", memory_stats |-> m,
           rag |-> g, reply |-> r] :
            m \in HealerSamples, g \in BOOLEAN, r \in PlanReplies}
    \cup {[op |-> "validate_healing_results", phase |-> "call",
           results |-> [memory_before |-> b, memory_after |-> a]] :
            b \in HealerSamples, a \in HealerSamples}

Init ==
    /\ Constructed
    /\ AgentConstructed("healer")
    /\ prediction_interval = 300
    /\ call \in HealerCalls

\* MemoryHealerAgent.execute_actions(actions)
ExecuteActions ==
    /\ Calling("execute_actions")
    /\ \E outcomes \in [1..Len(call.actions) -> Outcomes],
          before \in StatsProvider, after \in StatsProvider :
           call' = [op |-> "execute_actions", phase |-> "return",
                    actions |-> call.actions,
                    outcomes |-> outcomes,
                    shell |-> ShellLoop(call.actions, 1),
                    results |-> execute_actions(call.actions, outcomes, before, after)]
    /\ UNCHANGED <<now, store_vars, predictor_vars, agent_vars, healer_vars, cache_vars>>

\* MemoryHealerAgent.execute_priority_actions(healing_plan)
ExecutePriorityActions ==
    /\ Calling("execute_priority_actions")
    /\ LET actions == priority_actions(call.plan_actions)
       IN  \E outcomes \in [1..Len(actions) -> Outcomes],
              before \in StatsProvider, after \in StatsProvider :
               call' = [op |-> "execute_priority_actions", phase |-> "return",
                        plan_actions |-> call.plan_actions,
                        actions |-> actions,
                        outcomes |-> outcomes,
                        shell |-> ShellLoop(actions, 1),
                        results |-> execute_actions(actions, outcomes, before, after)]
    /\ UNCHANGED <<now, store_vars, predictor_vars, agent_vars, healer_vars, cache_vars>>

\* MemoryHealerAgent._llm_enhanced_plan(...) for a reply of the enhancer
LlmEnhancedPlan ==
    /\ Calling("_llm_enhanced_plan")
    /\ call' = [op |-> "_llm_enhanced_plan", phase |-> "return",
                reply |-> call.reply,
                enhanced_plan |-> llm_enhanced_plan(call.reply)]
    /\ UNCHANGED <<now, store_vars, predictor_vars, agent_vars, healer_vars, cache_vars>>

\* MemoryHealerAgent.generate_healing_plan(memory_stats)
GenerateHealingPlan ==
    /\ Calling("generate_healing_plan")
    /\ call' = [op |-> "generate_healing_plan", phase |-> "return",
                memory_stats |-> call.memory_stats,
                rag |-> call.rag,
                reply |-> call.reply,
                healing_plan |-> generate_healing_plan(call.memory_stats, call.rag,
                                                       call.reply)]
    /\ UNCHANGED <<now, store_vars, predictor_vars, agent_vars, healer_vars, cache_vars>>

\* MemoryHealerAgent.generate_urgent_healing_plan()
GenerateUrgentHealingPlan ==
    /\ Calling("generate_urgent_healing_plan")
    /\ call' = [op |-> "generate_urgent_healing_plan", phase |-> "return",
                memory_stats |-> call.memory_stats,
                healing_plan |-> generate_urgent_healing_plan(call.memory_stats)]
    /\ UNCHANGED <<now, store_vars, predictor_vars, agent_vars, healer_vars, cache_vars>>

\* MemoryHealerAgent.validate_healing_results(results)
ValidateHealingResults ==
    /\ Calling("validate_healing_results")
    /\ call' = [op |-> "validate_healing_results", phase |-> "return",
                results |-> call.results,
                validation |-> validate_healing_results(call.results)]
    /\ UNCHANGED <<now, store_vars, predictor_vars, agent_vars, healer_vars, cache_vars>>

Next ==
    \/ ExecuteActions
    \/ ExecutePriorityActions
    \/ LlmEnhancedPlan
    \/ GenerateHealingPlan
    \/ GenerateUrgentHealingPlan
    \/ ValidateHealingResults

Spec == Init /\ [][Next]_vars

\* ------------------------------------------ ShouldHeal over the event store
\* the issue lists of the predictions the store is filled with
StoredIssueLists ==
    {<<>>, <<Issue("critical", 8)>>, <<Issue("critical", 7)>>, <<Issue("high", 8)>>,
     <<Issue("high", 7), Issue("critical", 8)>>}

InitShouldHeal ==
    /\ Constructed
    /\ AgentConstructed("healer")
    /\ prediction_interval = 300
    /\ call = [op |-> "init", phase |-> "return"]

\* RagPipeline.add_prediction(prediction) for a prediction made just now
AddPrediction ==
    /\ Len(SinceConstruction(predictions)) < MaxPredictions
    /\ \E issues \in StoredIssueLists :
          LET prediction == [timestamp |-> now, current_memory_used |-> Pct(70),
                             has_1h |-> FALSE, predicted_memory_usage_1h |-> 0,
                             predicted_issues |-> issues, error |-> FALSE]
          IN  /\ predictions' = Append(predictions, prediction)
              /\ predictions_file' = Append(predictions_file, prediction)
              /\ call' = [op |-> "add_prediction", phase |-> "return",
                          prediction |-> prediction]
    /\ now' = now + 1
    /\ UNCHANGED <<memory_events, memory_events_file, healing_events,
                 healing_events_file, writers, predictor_vars, agent_vars, healer_vars, cache_vars>>

\* MemoryHealerAgent._should_execute_healing(memory_stats)
ShouldExecuteHealing ==
    /\ \E memory_stats \in HealerSamples, rag \in BOOLEAN :
          call' = [op |-> "_should_execute_healing", phase |-> "return",
                   memory_stats |-> memory_stats,
                   rag |-> rag,
                   should_heal |-> should_execute_healing(memory_stats, rag, predictions)]
    /\ UNCHANGED <<now, store_vars, predictor_vars, agent_vars, healer_vars, cache_vars>>

NextShouldHeal == AddPrediction \/ ShouldExecuteHealing

SpecShouldHeal == InitShouldHeal /\ [][NextShouldHeal]_vars

\* ------------------------------------------------------ monitor operations
MonitorSamples == {Stats(p, f) : p \in PercentGrid, f \in FreeGrid}

MonitorCalls ==
    {[op |-> "analyze_memory_conditions", phase |-> "call", memory_stats |-> m,
      rag |-> g, reply |-> r] :
        m \in MonitorSamples, g \in BOOLEAN, r \in AnalysisReplies}

InitMonitor ==
    /\ Constructed
    /\ AgentConstructed("monitor")
    /\ prediction_interval = 300
    /\ call \in MonitorCalls

\* MemoryMonitorAgent.analyze_memory_conditions(memory_stats)
AnalyzeMemoryConditions ==
    /\ Calling("analyze_memory_conditions")
    /\ call' = [op |-> "analyze_memory_conditions", phase |-> "return",
                memory_stats |-> call.memory_stats,
                rag |-> call.rag,
                reply |-> call.reply,
                analysis |-> analyze_memory_conditions(call.memory_stats, call.rag,
                                                       call.reply)]
    /\ UNCHANGED <<now, store_vars, predictor_vars, agent_vars, healer_vars, cache_vars>>

NextMonitor == AnalyzeMemoryConditions

SpecMonitor == InitMonitor /\ [][NextMonitor]_vars

\* ---------------------------------------------------- predictor operations
\* intervals start_prediction_service is given (300 is the default)
PredictionIntervals == {300, 600, 3600}

\* used_percent of the events of a history and of the current sample
HistoryValues == {0, Pct(60), Pct(65), Pct(70)}

CurrentValues == {Pct(50), PctHalf(50), Pct(60), PctHalf(60), Pct(70)}

\* histories: the i-th event carries timestamp i
Histories ==
    {[i \in 1..Len(vs) |-> [timestamp |-> i, stats |-> Stats(vs[i], MiB500)]] :
        vs \in SeqsUpTo(HistoryValues, MaxHistoryLen)}

PredictCalls ==
    {[op |-> "predict_memory_condition", phase |-> "call", current_stats |-> Stats(c, MiB500),
      historical_data |-> h, reply |-> r] :
        c \in CurrentValues, h \in Histories, r \in PredictionReplies}

InitPredict ==
    /\ Constructed
    /\ AgentConstructed("predictor")
    /\ prediction_interval \in PredictionIntervals
    /\ call \in PredictCalls

\* MemoryPredictorAgent.predict_memory_condition(current_stats, historical_data)
PredictMemoryCondition ==
    /\ Calling("predict_memory_condition")
    /\ call' = [op |-> "predict_memory_condition", phase |-> "return",
                current_stats |-> call.current_stats,
                historical_data |-> call.historical_data,
                reply |-> call.reply,
                prediction |-> predict_memory_condition(call.current_stats,
                                   call.historical_data, prediction_interval,
                                   call.reply, now)]
    /\ UNCHANGED <<now, store_vars, predictor_vars, agent_vars, healer_vars, cache_vars>>

NextPredict == PredictMemoryCondition

SpecPredict == InitPredict /\ [][NextPredict]_vars

\* ------------------------------------------------------- predictor loop
\* replies of the enhancer the loop is run with: a failure and an object
LoopReplies ==
    {[kind |-> "error"],
     [kind |-> "object", has_1h |-> TRUE, usage_1h |-> Pct(50),
      has_issues |-> TRUE, issues |-> <<Issue("critical", 9)>>]}

InitPredictorLoop ==
    /\ Constructed
    /\ AgentConstructed("predictor")
    /\ prediction_interval \in PredictionIntervals
    /\ call = [op |-> "init", phase |-> "return"]

\* RagPipeline.add_memory_event(memory_stats, analysis), as the monitor
\* loop calls it with a sample and its analysis
AddMemoryEvent ==
    /\ Len(SinceConstruction(memory_events)) < MaxEvents
    /\ \E memory_stats \in StatsProvider :
          LET event == [timestamp |-> now, stats |-> memory_stats,
                        analysis |-> analyze_memory_conditions(memory_stats, FALSE,
                                                               [kind |-> "error"])]
          IN  /\ memory_events' = Append(memory_events, event)
              /\ memory_events_file' = Append(memory_events_file, event)
              /\ call' = [op |-> "add_memory_event", phase |-> "return", event |-> event]
    /\ now' = now + 1
    /\ UNCHANGED <<predictions, predictions_file, healing_events,
                 healing_events_file, writers, predictor_vars, agent_vars, healer_vars, cache_vars>>

\* one iteration of MemoryPredictorAgent._prediction_loop
PredictionLoopTick ==
    /\ Len(SinceConstruction(predictions_file)) < MaxLogged
    /\ \E memory_stats \in StatsProvider, reply \in LoopReplies :
          LET historical_data == get_relevant_memory_events(memory_events, 20)
              prediction == predict_memory_condition(memory_stats, historical_data,
                                                     prediction_interval, reply, now)
          IN  /\ latest_prediction' = <<prediction>>
              /\ predictions_file' = Append(predictions_file, prediction)
              /\ call' = [op |-> "_prediction_loop", phase |-> "return",
                          memory_stats |-> memory_stats,
                          reply |-> reply,
                          historical_data |-> historical_data,
                          recent_values |-> recent_values(historical_data),
                          prediction |-> prediction]
    /\ now' = now + 1
    /\ UNCHANGED <<predictions, memory_events, memory_events_file, prediction_interval,
                 healing_events, healing_events_file, writers,
                 agent_vars, healer_vars, cache_vars>>

NextPredictorLoop == AddMemoryEvent \/ PredictionLoopTick

SpecPredictorLoop == InitPredictorLoop /\ [][NextPredictorLoop]_vars

\* ------------------------------------------------------------ agent loops
\* start/stop and the loop thread of one agent (the three agents share the
\* structure: start_monitoring / stop_monitoring / _monitoring_loop,
\* start_prediction_service / stop_prediction_service / _prediction_loop,
\* start_healing_service / stop_healing_service / _healing_loop)
Agents == {"monitor", "predictor", "healer"}

\* the calls of one iteration of the loop of agent a, in program order
LoopBody(a) ==
    CASE a = "monitor" ->
           <<"get_memory_stats", "analyze_memory_conditions", "_log_memory_event",
             "add_memory_event">>
      [] a = "predictor" ->
           <<"get_memory_stats", "get_relevant_memory_events",
             "predict_memory_condition", "_log_prediction">>
      [] a = "healer" ->
           <<"get_memory_stats", "_should_execute_healing", "generate_healing_plan",
             "execute_actions", "validate_healing_results", "_log_healing_event",
             "_add_to_healing_history">>

\* intervals the start operation of agent a is given: its default and a
\* shorter one
StartIntervals(a) == {DefaultInterval(a), 30}

\* timeout of the join in the stop operations, in seconds
JoinTimeout == 5

\* a thread the start operation has just created: about to test
\* self.running.  pc is where the thread is (test, body, sleep, done), step
\* the position in the loop body, remaining the actions execute_actions has
\* still to run, failed whether its last iteration ended in the except
\* branch
NewThread == [pc |-> "test", step |-> 0, remaining |-> 0, failed |-> FALSE]

\* the thread the agent's *_thread attribute refers to: the last one created
CurrentThread == Len(threads)

StartUpTo_mut(limit) ==
    /\ stopper.pc = "idle"
    /\ \E i \in StartIntervals(agent) :
          IF running
          THEN /\ call' = [op |-> "start", phase |-> "return", started |-> FALSE,
                           interval |-> i]
               /\ agent_interval' = i
               /\ UNCHANGED <<running, threads>>
          ELSE /\ Len(threads) < limit
               /\ agent_interval' = i
               /\ running' = TRUE
               /\ threads' = Append(threads, NewThread)
               /\ call' = [op |-> "start", phase |-> "return", started |-> TRUE,
                           interval |-> i]
    /\ UNCHANGED <<now, agent, stopper, store_vars, predictor_vars, healer_vars,
                   cache_vars>>

\* start_monitoring / start_prediction_service / start_healing_service,
\* called with an interval, as long as the agent has created fewer than
\* limit threads
StartUpTo(limit) ==
    /\ stopper.pc = "idle"
    /\ \E i \in StartIntervals(agent) :
          IF running
          THEN /\ call' = [op |-> "start", phase |-> "return", started |-> FALSE,
                           interval |-> i]
               /\ UNCHANGED <<running, agent_interval, threads>>
          ELSE /\ Len(threads) < limit
               /\ agent_interval' = i
               /\ running' = TRUE
               /\ threads' = Append(threads, NewThread)
               /\ call' = [op |-> "start", phase |-> "return", started |-> TRUE,
                           interval |-> i]
    /\ UNCHANGED <<now, agent, stopper, store_vars, predictor_vars, healer_vars,
                   cache_vars>>

Start == StartUpTo(MaxThreads)

\* stop_monitoring / stop_prediction_service / stop_healing_service up to
\* the join: clears the flag and, when a thread was ever created, waits for
\* the current one
Stop ==
    /\ stopper.pc = "idle"
    /\ running' = FALSE
    /\ IF threads = <<>>
       THEN /\ call' = [op |-> "stop", phase |-> "return", waited |-> 0]
            /\ UNCHANGED stopper
       ELSE /\ call' = [op |-> "stop", phase |-> "call"]
            /\ stopper' = [pc |-> "join", waited |-> 0]
    /\ UNCHANGED <<now, agent, agent_interval, threads, store_vars, predictor_vars,
                   healer_vars, cache_vars>>

\* a second passes while the caller of stop waits in join(timeout=5.0)
JoinWait ==
    /\ stopper.pc = "join"
    /\ stopper.waited < JoinTimeout
    /\ threads[CurrentThread].pc # "done"
    /\ stopper' = [stopper EXCEPT !.waited = @ + 1]
    /\ UNCHANGED <<call, now, agent, running, agent_interval, threads, store_vars,
                   predictor_vars, healer_vars, cache_vars>>

\* the join returns, because the thread has ended or the timeout has
\* elapsed, and with it the stop operation
JoinReturn ==
    /\ stopper.pc = "join"
    /\ threads[CurrentThread].pc = "done" \/ stopper.waited >= JoinTimeout
    /\ stopper' = [pc |-> "idle", waited |-> 0]
    /\ call' = [op |-> "stop", phase |-> "return", waited |-> stopper.waited]
    /\ UNCHANGED <<now, agent, running, agent_interval, threads, store_vars,
                   predictor_vars, healer_vars, cache_vars>>

\* what a step of a loop thread leaves alone
LoopFrame ==
    UNCHANGED <<call, now, agent, running, agent_interval, stopper, store_vars,
                predictor_vars, healer_vars, cache_vars>>

\* 'while self.running:' of thread t: enters the body or ends the thread
LoopTest_mut(t) ==
    /\ threads[t].pc = "test"
    /\ threads' = [threads EXCEPT ![t] =
                      IF running \/ agent = "healer"
                      THEN [threads[t] EXCEPT !.pc = "body", !.step = 1]
                      ELSE [threads[t] EXCEPT !.pc = "done"]]
    /\ LoopFrame

LoopTest(t) ==
    /\ threads[t].pc = "test"
    /\ threads' = [threads EXCEPT ![t] =
                      IF running
                      THEN [threads[t] EXCEPT !.pc = "body", !.step = 1]
                      ELSE [threads[t] EXCEPT !.pc = "done"]]
    /\ LoopFrame

\* the thread after the call at position step of its body has returned:
\* heal says whether _should_execute_healing returned true, n is the number
\* of actions of the plan generate_healing_plan returned
AfterCall(a, th, heal, n) ==
    LET name == LoopBody(a)[th.step]
        asleep == [pc |-> "sleep", step |-> 0, remaining |-> 0, failed |-> FALSE]
    IN  IF name = "_should_execute_healing" /\ ~heal THEN asleep
        ELSE IF name = "generate_healing_plan"
        THEN IF n = 0 THEN asleep ELSE [th EXCEPT !.step = @ + 1, !.remaining = n]
        ELSE IF name = "execute_actions" /\ th.remaining > 1
        THEN [th EXCEPT !.remaining = @ - 1]
        ELSE IF th.step = Len(LoopBody(a)) THEN asleep
        ELSE [th EXCEPT !.step = @ + 1, !.remaining = 0]

\* thread t makes the next call of its loop body and the call returns (a
\* failure the call handles itself included); execute_actions takes one
\* step for each action of the plan
LoopCall(t) ==
    /\ threads[t].pc = "body"
    /\ \E heal \in BOOLEAN, n \in 0..MaxActions :
          threads' = [threads EXCEPT ![t] = AfterCall(agent, threads[t], heal, n)]
    /\ LoopFrame

\* an exception leaves the try block of thread t: 'except Exception' logs it
\* and sleeps
LoopExcept_mut(t) ==
    /\ threads[t].pc = "body"
    /\ threads' = [threads EXCEPT ![t] =
                      [pc |-> "done", step |-> 0, remaining |-> 0, failed |-> TRUE]]
    /\ LoopFrame

LoopExcept(t) ==
    /\ threads[t].pc = "body"
    /\ threads' = [threads EXCEPT ![t] =
                      [pc |-> "sleep", step |-> 0, remaining |-> 0, failed |-> TRUE]]
    /\ LoopFrame

\* time.sleep of thread t returns
LoopWake(t) ==
    /\ threads[t].pc = "sleep"
    /\ threads' = [threads EXCEPT ![t] = [@ EXCEPT !.pc = "test"]]
    /\ LoopFrame

LoopStep(t) == LoopTest(t) \/ LoopCall(t) \/ LoopExcept(t) \/ LoopWake(t)

InitAgents ==
    /\ Constructed
    /\ now = 1
    /\ prediction_interval = 300
    /\ \E a \in Agents : AgentConstructed(a)
    /\ call = [op |-> "init", phase |-> "return"]

NextAgents ==
    \/ Start
    \/ Stop
    \/ JoinWait
    \/ JoinReturn
    \/ \E t \in 1..Len(threads) : LoopTest(t)
    \/ \E t \in 1..Len(threads) : LoopCall(t)
    \/ \E t \in 1..Len(threads) : LoopExcept(t)
    \/ \E t \in 1..Len(threads) : LoopWake(t)

SpecAgents == InitAgents /\ [][NextAgents]_vars

\* the loops with their scheduling: a thread that can take a step
\* eventually takes it (calls return or raise, sleeps end), and a join
\* eventually returns
FairAgents ==
    /\ \A t \in 1..MaxThreads : WF_vars(t <= Len(threads) /\ LoopStep(t))
    /\ WF_vars(JoinWait \/ JoinReturn)

SpecAgentsFair == SpecAgents /\ FairAgents

\* the agent restarted: the same operations and loop threads, with one more
\* start that creates a thread
Restart == StartUpTo(MaxThreads + 1)

NextRestart ==
    \/ Restart
    \/ Stop
    \/ JoinWait
    \/ JoinReturn
    \/ \E t \in 1..Len(threads) : LoopTest(t)
    \/ \E t \in 1..Len(threads) : LoopCall(t)
    \/ \E t \in 1..Len(threads) : LoopExcept(t)
    \/ \E t \in 1..Len(threads) : LoopWake(t)

SpecRestart == InitAgents /\ [][NextRestart]_vars

\* ------------------------------------------------------ event store alone
\* records the in-memory indexes keep: lines[-100:] of the _ingest_*
\* functions
index_cap == 100

\* a line of a log file that is not a complete JSON document (a line cut
\* short or mixed with another one); k tells such lines apart
MalformedLine(k) == [malformed |-> k]

\* json.loads(line.strip()) returns (it raises json.JSONDecodeError on a
\* malformed line)
JsonLoads(line) == "malformed" \notin DOMAIN line

ingest_from_file_mut(lines, index) ==
    IF lines = <<>> THEN index
    ELSE LET tail == LastN(lines, index_cap)
             bad == {i \in 1..Len(tail) : ~JsonLoads(tail[i])}
             stop == IF bad = {} THEN Len(tail) + 1
                     ELSE CHOOSE i \in bad : \A j \in bad : i <= j
         IN  SubSeq(tail, 1, stop - 1)

\* _ingest_memory_events_from_file, _ingest_predictions_from_file and
\* _ingest_healing_events_from_file: the new index, given the lines of the
\* log file and the old index (kept when there is no file); the index is
\* emptied and every line of lines[-100:] that parses is appended
ingest_from_file(lines, index) ==
    IF lines = <<>> THEN index
    ELSE SelectSeq(LastN(lines, index_cap), JsonLoads)

\* a memory event, a prediction and a healing event as the store writes them
MemoryEvent(time, memory_stats) ==
    [timestamp |-> time, stats |-> memory_stats,
     analysis |-> analyze_memory_conditions(memory_stats, FALSE, [kind |-> "error"])]

PredictionRecord(time, issues) ==
    [timestamp |-> time, current_memory_used |-> Pct(70), has_1h |-> FALSE,
     predicted_memory_usage_1h |-> 0, predicted_issues |-> issues, error |-> FALSE]

HealingEvent(time, memory_stats, healing_plan, results, validation) ==
    [timestamp |-> time, memory_stats |-> memory_stats, healing_plan |-> healing_plan,
     results |-> results, validation |-> validation]

\* the healing event of a sample at 90.5 percent healed down to 60 percent
\* with the rule-based plan
SampleHealingEvent(time) ==
    LET memory_stats == Stats(PctHalf(90), MiB500)
        healing_plan == generate_healing_plan(memory_stats, FALSE, [kind |-> "error"])
        results == execute_actions(healing_plan.actions,
                                   [i \in 1..Len(healing_plan.actions) |-> "ok"],
                                   memory_stats, Stats(Pct(60), MiB500))
    IN  HealingEvent(time, memory_stats, healing_plan, results,
                     validate_healing_results(results))

\* what a log file holds when the store is constructed: n lines written by
\* earlier runs (their timestamps are n-1 .. 0 clock ticks before
\* construction), the second of them malformed when torn is true
PriorLines(n, torn, record) ==
    [i \in 1..n |-> IF torn /\ i = 2 THEN MalformedLine(i) ELSE record[i - n]]

\* the log files at construction: the number of lines of the memory event
\* log (n) and of the other two logs (m), and whether a line is malformed
StoreScenarios ==
    {[n |-> 0, m |-> 0, torn |-> FALSE], [n |-> 3, m |-> 3, torn |-> TRUE],
     [n |-> index_cap + 1, m |-> 0, torn |-> FALSE]}

InitStore ==
    /\ now = 1
    /\ \E sc \in StoreScenarios :
          /\ memory_events_file =
                PriorLines(sc.n, sc.torn,
                           [t \in (1 - sc.n)..0 |-> MemoryEvent(t, Stats(Pct(60), MiB500))])
          /\ predictions_file =
                PriorLines(sc.m, sc.torn,
                           [t \in (1 - sc.m)..0 |-> PredictionRecord(t, <<>>)])
          /\ healing_events_file =
                PriorLines(sc.m, sc.torn, [t \in (1 - sc.m)..0 |-> SampleHealingEvent(t)])
    /\ memory_events = <<>>
    /\ predictions = <<>>
    /\ healing_events = <<>>
    /\ writers = <<>>
    /\ latest_prediction = <<>>
    /\ prediction_interval = 300
    /\ healing_history = <<>>
    /\ cache = <<>>
    /\ external_calls = 0
    /\ api_key = FALSE
    /\ obtained = <<>>
    /\ AgentConstructed("monitor")
    /\ call = [op |-> "init", phase |-> "return"]

\* RagPipeline.add_healing_event(memory_stats, healing_plan, results,
\* validation)
AddHealingEvent ==
    /\ LET event == SampleHealingEvent(now)
       IN  /\ healing_events' = Append(healing_events, event)
           /\ healing_events_file' = Append(healing_events_file, event)
           /\ call' = [op |-> "add_healing_event", phase |-> "return", event |-> event]
    /\ now' = now + 1
    /\ UNCHANGED <<predictions, predictions_file, memory_events, memory_events_file,
                   writers, predictor_vars, agent_vars, healer_vars, cache_vars>>

\* one cycle of RagPipeline._background_ingestion: the three indexes are
\* rebuilt from their log files
BackgroundIngestion ==
    /\ memory_events' = ingest_from_file(memory_events_file, memory_events)
    /\ predictions' = ingest_from_file(predictions_file, predictions)
    /\ healing_events' = ingest_from_file(healing_events_file, healing_events)
    /\ call' = [op |-> "_background_ingestion", phase |-> "return"]
    /\ UNCHANGED <<now, memory_events_file, predictions_file, healing_events_file,
                   writers, predictor_vars, agent_vars, healer_vars, cache_vars>>

\* limits of the queries: the number of records of the kind appended since
\* construction, and the default
QueryLimits(index) == {Len(SinceConstruction(index)), 5}

\* RagPipeline.get_relevant_memory_events(memory_stats, limit)
GetRelevantMemoryEvents ==
    /\ \E limit \in QueryLimits(memory_events) :
          call' = [op |-> "get_relevant_memory_events", phase |-> "return",
                   limit |-> limit,
                   result |-> get_relevant_memory_events(memory_events, limit)]
    /\ UNCHANGED <<now, store_vars, predictor_vars, agent_vars, healer_vars, cache_vars>>

\* RagPipeline.get_recent_predictions(limit)
GetRecentPredictions ==
    /\ \E limit \in QueryLimits(predictions) :
          call' = [op |-> "get_recent_predictions", phase |-> "return",
                   limit |-> limit,
                   result |-> get_recent_predictions(predictions, limit)]
    /\ UNCHANGED <<now, store_vars, predictor_vars, agent_vars, healer_vars, cache_vars>>

\* the clients of the store append MaxAppends records at most
NextStore ==
    \/ now <= MaxAppends /\ AddMemoryEvent
    \/ now <= MaxAppends /\ AddPrediction
    \/ now <= MaxAppends /\ AddHealingEvent
    \/ BackgroundIngestion
    \/ GetRelevantMemoryEvents
    \/ GetRecentPredictions

SpecStore == InitStore /\ [][NextStore]_vars

\* ------------------------------ predictions on their way to the healer
\* The predictor loop writes its prediction to data/memory_predictions.jsonl
\* (_log_prediction); the store's refresh loads the file into its index; the
\* healer reads the index in _should_execute_healing. At construction the
\* file holds nothing or two predictions of an earlier run, and the index
\* is empty until the first refresh.
PriorIssueLists == {<<>>, <<Issue("critical", 9)>>}

InitVisibility ==
    /\ now = 1
    /\ \E issues \in PriorIssueLists, n \in {0, 2} :
          predictions_file =
             PriorLines(n, FALSE,
                        [t \in (1 - n)..0 |->
                            PredictionRecord(t, IF t = 0 THEN issues ELSE <<>>)])
    /\ predictions = <<>>
    /\ memory_events = <<>>
    /\ memory_events_file = <<>>
    /\ healing_events = <<>>
    /\ healing_events_file = <<>>
    /\ writers = <<>>
    /\ latest_prediction = <<>>
    /\ prediction_interval = 300
    /\ healing_history = <<>>
    /\ cache = <<>>
    /\ external_calls = 0
    /\ api_key = FALSE
    /\ obtained = <<>>
    /\ AgentConstructed("healer")
    /\ call = [op |-> "init", phase |-> "return"]

NextVisibility ==
    \/ PredictionLoopTick
    \/ BackgroundIngestion
    \/ ShouldExecuteHealing

SpecVisibility == InitVisibility /\ [][NextVisibility]_vars

\* ------------------------------------- a refresh step by step
\* The thread of _background_ingestion next to the threads that use the
\* store. threads[1] is the ingestion thread: pc is where it is in
\* _ingest_memory_events_from_file (idle between two cycles, "clear" after
\* f.readlines(), "load" inside the for loop), lines what readlines
\* returned, i the line the loop is at, and before (a history field) the
\* index as it was when the cycle began.
RefreshFrame(pc, lines, i, before) ==
    [pc |-> pc, lines |-> lines, i |-> i, before |-> before]

\* lines of the memory event log written by an earlier run
PriorEvents == 2

\* the store after its first refresh: the index holds the lines of the log
InitRefresh ==
    /\ now = 1
    /\ memory_events_file =
          PriorLines(PriorEvents, FALSE,
                     [t \in (1 - PriorEvents)..0 |-> MemoryEvent(t, Stats(Pct(60), MiB500))])
    /\ memory_events = memory_events_file
    /\ predictions = <<>>
    /\ predictions_file = <<>>
    /\ healing_events = <<>>
    /\ healing_events_file = <<>>
    /\ writers = <<>>
    /\ latest_prediction = <<>>
    /\ prediction_interval = 300
    /\ healing_history = <<>>
    /\ cache = <<>>
    /\ external_calls = 0
    /\ api_key = FALSE
    /\ obtained = <<>>
    /\ agent = "monitor"
    /\ running = TRUE
    /\ agent_interval = DefaultInterval("monitor")
    /\ threads = <<RefreshFrame("idle", <<>>, 0, <<>>)>>
    /\ stopper = [pc |-> "idle", waited |-> 0]
    /\ call = [op |-> "init", phase |-> "return"]

RefreshUnchanged ==
    UNCHANGED <<call, now, memory_events_file, predictions_file, healing_events_file,
                writers, predictor_vars, agent, running, agent_interval, stopper,
                healer_vars, cache_vars>>

\* with open("data/memory_events.jsonl", "r") as f: lines = f.readlines()
RefreshRead ==
    /\ threads[1].pc = "idle"
    /\ memory_events_file # <<>>
    /\ threads' = <<RefreshFrame("clear", memory_events_file, 0, memory_events)>>
    /\ UNCHANGED <<memory_events, predictions, healing_events>>
    /\ RefreshUnchanged

\* self.memory_events = []
RefreshClear ==
    /\ threads[1].pc = "clear"
    /\ memory_events' = <<>>
    /\ threads' = <<[threads[1] EXCEPT !.pc = "load", !.i = 1]>>
    /\ UNCHANGED <<predictions, healing_events>>
    /\ RefreshUnchanged

\* one pass of 'for line in lines[-100:]': json.loads and
\* self.memory_events.append(event), a malformed line skipped
RefreshLoad ==
    /\ threads[1].pc = "load"
    /\ LET th == threads[1]
           tail == LastN(th.lines, index_cap)
       IN  /\ th.i <= Len(tail)
           /\ memory_events' = IF JsonLoads(tail[th.i])
                               THEN Append(memory_events, tail[th.i])
                               ELSE memory_events
           /\ threads' = <<[th EXCEPT !.i = @ + 1]>>
    /\ UNCHANGED <<predictions, healing_events>>
    /\ RefreshUnchanged

\* the loop is over; the cycle goes on with the predictions and the healing
\* events and sleeps
RefreshDone ==
    /\ threads[1].pc = "load"
    /\ threads[1].i > Len(LastN(threads[1].lines, index_cap))
    /\ predictions' = ingest_from_file(predictions_file, predictions)
    /\ healing_events' = ingest_from_file(healing_events_file, healing_events)
    /\ threads' = <<RefreshFrame("idle", <<>>, 0, <<>>)>>
    /\ UNCHANGED memory_events
    /\ RefreshUnchanged

\* the monitor's add_memory_event and a query of another agent, at any
\* point of the refresh
NextRefresh ==
    \/ RefreshRead
    \/ RefreshClear
    \/ RefreshLoad
    \/ RefreshDone
    \/ now <= MaxAppends /\ AddMemoryEvent
    \/ GetRelevantMemoryEvents

SpecRefresh == InitRefresh /\ [][NextRefresh]_vars

\* ------------------------------------------- writers of one log file
\* The threads that append lines to data/memory_events.jsonl: the monitor
\* loop (_log_memory_event, then RagPipeline.add_memory_event) and the loop
\* of LogIngestionSystem (_write_memory_event). Both run
\*     with open(path, 'a') as f: f.write(json.dumps(event) + '\n')
\* and no lock is taken around it.
Writers == {"monitor_loop", "ingestion_loop"}

WriterOp(w) ==
    IF w = "monitor_loop" THEN "_log_memory_event" ELSE "_write_memory_event"

\* the event a writer builds at clock time
WriterEvent(w, time) ==
    IF w = "monitor_loop" THEN MemoryEvent(time, Stats(Pct(60), MiB500))
    ELSE [timestamp |-> time, stats |-> Stats(Pct(60), MiB500)]

\* the end of a file whose last line has no newline yet: the head of the
\* line of writer w, mixed with bytes of other writers when mixed is true
Fragment(w, mixed) == [malformed |-> "unterminated", writer |-> w, mixed |-> mixed]

Unterminated(file) ==
    /\ file # <<>>
    /\ "writer" \in DOMAIN file[Len(file)]

\* the lines of the file after writer w has written a part of its line: the
\* whole line, its head (no newline) or its tail (with the newline)
AppendBytes(file, w, part, event) ==
    LET n == Len(file)
    IN  IF ~Unterminated(file)
        THEN CASE part = "whole" -> Append(file, event)
               [] part = "head" -> Append(file, Fragment(w, FALSE))
               [] part = "tail" -> Append(file, MalformedLine("tail"))
        ELSE IF part = "tail" /\ file[n].writer = w /\ ~file[n].mixed
             THEN [file EXCEPT ![n] = event]
             ELSE IF part = "head"
                  THEN [file EXCEPT ![n] = Fragment(file[n].writer, TRUE)]
                  ELSE [file EXCEPT ![n] = MalformedLine("interleaved")]

\* the writers that are inside the with block
InsideWrite == {w \in Writers : writers[w].pc # "idle"}

\* open(path, 'a'): the writer has built its event and enters the with block
WriterOpen(w) ==
    /\ writers[w].pc = "idle"
    /\ now <= MaxWrites
    /\ writers' = [writers EXCEPT ![w] = [pc |-> "open", time |-> now]]
    /\ now' = now + 1
    /\ call' = [op |-> WriterOp(w), phase |-> "call", writer |-> w]
    /\ UNCHANGED <<predictions, predictions_file, memory_events, memory_events_file,
                   healing_events, healing_events_file, predictor_vars, agent_vars,
                   healer_vars, cache_vars>>

\* f.write and the close of the file: the line reaches the file in one piece
WriterWrite(w) ==
    /\ writers[w].pc = "open"
    /\ memory_events_file' = AppendBytes(memory_events_file, w, "whole",
                                         WriterEvent(w, writers[w].time))
    /\ writers' = [writers EXCEPT ![w].pc = "idle"]
    /\ call' = [op |-> WriterOp(w), phase |-> "return", writer |-> w]
    /\ UNCHANGED <<now, predictions, predictions_file, memory_events, healing_events,
                   healing_events_file, predictor_vars, agent_vars, healer_vars,
                   cache_vars>>

\* the line reaches the file in two pieces (a line longer than the buffer
\* of the file object, or a platform whose appends are not atomic): its head
WriterWriteHead(w) ==
    /\ writers[w].pc = "open"
    /\ memory_events_file' = AppendBytes(memory_events_file, w, "head",
                                         WriterEvent(w, writers[w].time))
    /\ writers' = [writers EXCEPT ![w].pc = "half"]
    /\ UNCHANGED <<call, now, predictions, predictions_file, memory_events,
                   healing_events, healing_events_file, predictor_vars, agent_vars,
                   healer_vars, cache_vars>>

\* the rest of a line written in two pieces
WriterWriteTail(w) ==
    /\ writers[w].pc = "half"
    /\ memory_events_file' = AppendBytes(memory_events_file, w, "tail",
                                         WriterEvent(w, writers[w].time))
    /\ writers' = [writers EXCEPT ![w].pc = "idle"]
    /\ call' = [op |-> WriterOp(w), phase |-> "return", writer |-> w]
    /\ UNCHANGED <<now, predictions, predictions_file, memory_events, healing_events,
                   healing_events_file, predictor_vars, agent_vars, healer_vars,
                   cache_vars>>

InitWriters ==
    /\ now = 1
    /\ memory_events_file = <<>>
    /\ predictions_file = <<>>
    /\ healing_events_file = <<>>
    /\ memory_events = <<>>
    /\ predictions = <<>>
    /\ healing_events = <<>>
    /\ writers = [w \in Writers |-> [pc |-> "idle", time |-> 0]]
    /\ latest_prediction = <<>>
    /\ prediction_interval = 300
    /\ healing_history = <<>>
    /\ cache = <<>>
    /\ external_calls = 0
    /\ api_key = FALSE
    /\ obtained = <<>>
    /\ AgentConstructed("monitor")
    /\ call = [op |-> "init", phase |-> "return"]

NextWriters ==
    \E w \in Writers :
        \/ WriterOpen(w)
        \/ WriterWrite(w)
        \/ WriterWriteHead(w)
        \/ WriterWriteTail(w)

SpecWriters == InitWriters /\ [][NextWriters]_vars

\* ------------------------------------------------- healer: loop and history
\* max_history_size of MemoryHealerAgent
max_history_size == 100

\* the event _add_to_healing_history builds
HistoryEntry(time, memory_stats, healing_plan, validation) ==
    [timestamp |-> time,
     memory_usage |-> memory_stats.used_percent,
     actions |-> [i \in 1..Len(healing_plan.actions) |->
                     healing_plan.actions[i].action_type],
     effective |-> validation.effective,
     effectiveness_score |-> validation.effectiveness_score]

add_to_healing_history_mut(history, event) ==
    LET appended == Append(history, event)
    IN  IF Len(appended) > max_history_size
        THEN SubSeq(appended, 1, max_history_size) ELSE appended

\* _add_to_healing_history: the new value of healing_history
add_to_healing_history(history, event) ==
    LET appended == Append(history, event)
    IN  IF Len(appended) > max_history_size
        THEN LastN(appended, max_history_size) ELSE appended

\* the history after n earlier ticks that healed a sample at 90.5 percent
\* (their entries were made n-1 .. 0 clock ticks before the first state)
PriorHistory(n) ==
    [i \in 1..n |->
        LET event == SampleHealingEvent(i - n)
        IN  HistoryEntry(i - n, event.memory_stats, event.healing_plan, event.validation)]

\* the lengths of the history in the first state
PriorHistoryLens == {0, max_history_size - 1, max_history_size}

\* samples get_memory_stats() hands to the healer loop
HealerLoopSamples == {Stats(Pct(60), MiB500), Stats(PctHalf(90), MiB500)}

\* replies of the enhancer during the loop
HealerLoopReplies ==
    {[kind |-> "error"], [kind |-> "array"],
     [kind |-> "object", has_actions |-> "list",
      actions |-> <<Action("optimize", "low", Absent)>>,
      severity |-> "low", description |-> Absent]}

\* the frame of the thread that runs _healing_loop: its position, the
\* number of the tick and the locals of the tick
HealerFrame(pc, tick, memory_stats, healing_plan, results, validation) ==
    [pc |-> pc, tick |-> tick, memory_stats |-> memory_stats,
     healing_plan |-> healing_plan, results |-> results, validation |-> validation]

Unbound == <<>>

HealerGoto(pc, memory_stats, healing_plan, results, validation) ==
    threads' = <<HealerFrame(pc, threads[1].tick, memory_stats, healing_plan,
                             results, validation)>>

HealerUnchanged ==
    UNCHANGED <<predictions, predictions_file, memory_events, memory_events_file,
                healing_events, writers, predictor_vars, agent, running,
                agent_interval, stopper, cache_vars>>

\* while self.running: memory_stats = get_memory_stats()
HealSample ==
    /\ threads[1].pc = "test"
    /\ running
    /\ threads[1].tick < MaxTicks
    /\ \E memory_stats \in HealerLoopSamples :
          threads' = <<HealerFrame("should", threads[1].tick + 1, memory_stats,
                                   Unbound, Unbound, Unbound)>>
    /\ call' = [op |-> "get_memory_stats", phase |-> "return"]
    /\ UNCHANGED <<now, healing_events_file, healing_history>>
    /\ HealerUnchanged

HealShould_mut ==
    /\ threads[1].pc = "should"
    /\ LET th == threads[1]
       IN  HealerGoto("plan", th.memory_stats, Unbound, Unbound, Unbound)
    /\ call' = [op |-> "_should_execute_healing", phase |-> "return"]
    /\ UNCHANGED <<now, healing_events_file, healing_history>>
    /\ HealerUnchanged

\* if self._should_execute_healing(memory_stats)
HealShould ==
    /\ threads[1].pc = "should"
    /\ LET th == threads[1]
       IN  IF should_execute_healing(th.memory_stats, TRUE, predictions)
           THEN HealerGoto("plan", th.memory_stats, Unbound, Unbound, Unbound)
           ELSE HealerGoto("sleep", th.memory_stats, Unbound, Unbound, Unbound)
    /\ call' = [op |-> "_should_execute_healing", phase |-> "return"]
    /\ UNCHANGED <<now, healing_events_file, healing_history>>
    /\ HealerUnchanged

\* healing_plan = self.generate_healing_plan(memory_stats) and the test of
\* its actions
HealPlan ==
    /\ threads[1].pc = "plan"
    /\ \E reply \in HealerLoopReplies :
          LET th == threads[1]
              healing_plan == generate_healing_plan(th.memory_stats, TRUE, reply)
          IN  IF healing_plan.actions # <<>>
              THEN HealerGoto("execute", th.memory_stats, healing_plan, Unbound, Unbound)
              ELSE HealerGoto("sleep", th.memory_stats, healing_plan, Unbound, Unbound)
    /\ call' = [op |-> "generate_healing_plan", phase |-> "return"]
    /\ UNCHANGED <<now, healing_events_file, healing_history>>
    /\ HealerUnchanged

\* results = self.execute_actions(healing_plan['actions'])
HealExecute ==
    /\ threads[1].pc = "execute"
    /\ \E outcome \in Outcomes, after \in HealerLoopSamples :
          LET th == threads[1]
              actions == th.healing_plan.actions
              results == execute_actions(actions, [i \in 1..Len(actions) |-> outcome],
                                         th.memory_stats, after)
          IN  HealerGoto("validate", th.memory_stats, th.healing_plan, results, Unbound)
    /\ call' = [op |-> "execute_actions", phase |-> "return"]
    /\ UNCHANGED <<now, healing_events_file, healing_history>>
    /\ HealerUnchanged

\* validation = self.validate_healing_results(results)
HealValidate ==
    /\ threads[1].pc = "validate"
    /\ LET th == threads[1]
       IN  HealerGoto("log", th.memory_stats, th.healing_plan, th.results,
                      validate_healing_results(th.results))
    /\ call' = [op |-> "validate_healing_results", phase |-> "return"]
    /\ UNCHANGED <<now, healing_events_file, healing_history>>
    /\ HealerUnchanged

HealLog_mut ==
    /\ threads[1].pc = "log"
    /\ LET th == threads[1]
       IN  /\ healing_events_file' =
                 Append(healing_events_file,
                        HealingEvent(now, th.memory_stats, th.healing_plan, th.results,
                                     th.validation))
           /\ HealerGoto("sleep", th.memory_stats, th.healing_plan, th.results,
                         th.validation)
    /\ now' = now + 1
    /\ call' = [op |-> "_log_healing_event", phase |-> "return"]
    /\ UNCHANGED healing_history
    /\ HealerUnchanged

\* self._log_healing_event(memory_stats, healing_plan, results, validation)
HealLog ==
    /\ threads[1].pc = "log"
    /\ LET th == threads[1]
       IN  /\ healing_events_file' =
                 Append(healing_events_file,
                        HealingEvent(now, th.memory_stats, th.healing_plan, th.results,
                                     th.validation))
           /\ HealerGoto("history", th.memory_stats, th.healing_plan, th.results,
                         th.validation)
    /\ now' = now + 1
    /\ call' = [op |-> "_log_healing_event", phase |-> "return"]
    /\ UNCHANGED healing_history
    /\ HealerUnchanged

\* self._add_to_healing_history(memory_stats, healing_plan, results,
\* validation)
HealHistory ==
    /\ threads[1].pc = "history"
    /\ LET th == threads[1]
       IN  /\ healing_history' =
                 add_to_healing_history(healing_history,
                     HistoryEntry(now, th.memory_stats, th.healing_plan, th.validation))
           /\ HealerGoto("sleep", th.memory_stats, th.healing_plan, th.results,
                         th.validation)
    /\ now' = now + 1
    /\ call' = [op |-> "_add_to_healing_history", phase |-> "return"]
    /\ UNCHANGED healing_events_file
    /\ HealerUnchanged

\* time.sleep(self.healing_interval) and the return to the loop test
HealSleep ==
    /\ threads[1].pc = "sleep"
    /\ threads' = <<HealerFrame("test", threads[1].tick, Unbound, Unbound, Unbound,
                                Unbound)>>
    /\ call' = [op |-> "sleep", phase |-> "return", seconds |-> agent_interval]
    /\ UNCHANGED <<now, healing_events_file, healing_history>>
    /\ HealerUnchanged

\* a running healer whose loop thread is at the loop test; the store holds
\* no prediction or one that forecasts a critical issue
InitHealerLoop ==
    /\ now = 1
    /\ memory_events = <<>>
    /\ memory_events_file = <<>>
    /\ predictions \in {<<>>, <<PredictionRecord(0, <<Issue("critical", 9)>>)>>}
    /\ predictions_file = predictions
    /\ healing_events = <<>>
    /\ healing_events_file = <<>>
    /\ writers = <<>>
    /\ latest_prediction = <<>>
    /\ prediction_interval = 300
    /\ \E n \in PriorHistoryLens : healing_history = PriorHistory(n)
    /\ cache = <<>>
    /\ external_calls = 0
    /\ api_key = FALSE
    /\ obtained = <<>>
    /\ agent = "healer"
    /\ running = TRUE
    /\ agent_interval = DefaultInterval("healer")
    /\ threads = <<HealerFrame("test", 0, Unbound, Unbound, Unbound, Unbound)>>
    /\ stopper = [pc |-> "idle", waited |-> 0]
    /\ call = [op |-> "start_healing_service", phase |-> "return"]

NextHealerLoop ==
    \/ HealSample
    \/ HealShould
    \/ HealPlan
    \/ HealExecute
    \/ HealValidate
    \/ HealLog
    \/ HealHistory
    \/ HealSleep

SpecHealerLoop == InitHealerLoop /\ [][NextHealerLoop]_vars

\* the loop thread is scheduled as long as it can take a step
SpecHealerLoopFair == SpecHealerLoop /\ WF_vars(NextHealerLoop)

\* execute_actions calls the host for the action: release_memory_cache
\* (subprocess.run(['sync'], check=True)) or an allow-listed command
\* (subprocess.run(command, shell=True, check=True)); defragment and optimize
\* are sleeps of 2 and 1 seconds
CallsHost(action) == action.action_type = "clear_cache" \/ RunsShell(action)

\* the steps of the loop that wait for nothing outside the process
HealerOwnStep ==
    \/ HealSample
    \/ HealShould
    \/ /\ threads[1].pc = "execute"
       /\ \A i \in 1..Len(threads[1].healing_plan.actions) :
             ~CallsHost(threads[1].healing_plan.actions[i])
       /\ HealExecute
    \/ HealValidate
    \/ HealLog
    \/ HealHistory
    \/ HealSleep

\* the loop thread is scheduled, but HealPlan waits for the reply to the
\* requests.post of the enhancer and HealExecute, for a plan with an action
\* that calls the host, for subprocess.run to return: both calls are made
\* without a timeout, so nothing in the process makes these steps happen
SpecHealerLoopExternal == SpecHealerLoop /\ WF_vars(HealerOwnStep)

\* -------------------------------------------------- enhancer: request cache
\* cache_ttl of LLMProcessor (seconds)
cache_ttl == 3600

Request(prompt, temperature, max_tokens) ==
    [prompt |-> prompt, temperature |-> temperature, max_tokens |-> max_tokens]

\* the requests the agents make (temperature in tenths)
Requests == {Request("sample A", 7, 1024), Request("sample B", 7, 1024)}

\* _get_cache_key: the md5 digest of f"{prompt}_{temperature}_{max_tokens}".
\* The two numbers are printed without an underscore, so the text (and,
\* collisions of the digest aside, the key) is the same for two requests only
\* when the three values are the same.
get_cache_key(request) == <<request.prompt, request.temperature, request.max_tokens>>

\* what _process_with_mistral returns when it has posted the request: the
\* content of the first choice (which can be the empty string) or an error
\* text
ExternalReplies ==
    {"answer 1", "answer 2", "", "Error: API request failed with status 500"}

\* the texts _process_with_mistral returns for an error outcome: no API
\* key, a status other than 200, a payload without choices, an exception
ErrorOutcomes ==
    {"Error: Mistral API key not provided",
     "Error: API request failed with status 500",
     "Error: Unexpected API response format"}

\* seconds that pass between two calls of process
Delays == {1, cache_ttl - 1, cache_ttl + 1}

\* _get_from_cache at clock time: the cached response, Absent (None) when
\* there is no file or the file is older than cache_ttl
get_from_cache(files, request, time) ==
    LET cache_key == get_cache_key(request)
    IN  IF cache_key \notin DOMAIN files THEN Absent
        ELSE IF time - files[cache_key].timestamp > cache_ttl THEN Absent
        ELSE files[cache_key].response

\* _save_to_cache at clock time: the files of the cache directory
save_to_cache(files, request, response, time) ==
    (get_cache_key(request) :> [timestamp |-> time, response |-> response]) @@ files

\* truth value of a response text or None
IsTruthyText(text) == text # Absent /\ text # ""

\* the effect of process(request) when _process_with_mistral returns
\* response after posting posted requests
ProcessMiss(request, response, posted) ==
    /\ external_calls' = external_calls + posted
    /\ cache' = IF IsTruthyText(response)
                THEN save_to_cache(cache, request, response, now')
                ELSE cache
    /\ obtained' = (request :> [response |-> response, time |-> now']) @@ obtained
    /\ call' = [op |-> "process", phase |-> "return", n |-> call.n + 1,
                request |-> request, response |-> response, posted |-> posted]

\* LLMProcessor.process(prompt, temperature, max_tokens), called delay
\* seconds after the call before it, with use_cache and a cache directory
Process(request, delay) ==
    /\ call.n < MaxCalls
    /\ now' = now + delay
    /\ LET cached_response == get_from_cache(cache, request, now')
       IN  IF IsTruthyText(cached_response)
           THEN /\ call' = [op |-> "process", phase |-> "return", n |-> call.n + 1,
                            request |-> request, response |-> cached_response,
                            posted |-> 0]
                /\ UNCHANGED <<cache, external_calls, obtained>>
           ELSE IF ~api_key
           THEN ProcessMiss(request, "Error: Mistral API key not provided", 0)
           ELSE \E reply \in ExternalReplies : ProcessMiss(request, reply, 1)
    /\ UNCHANGED <<api_key, store_vars, predictor_vars, agent_vars, healer_vars>>

\* an LLMProcessor right after construction, with or without an API key
InitCache ==
    /\ now = 1
    /\ predictions = <<>>
    /\ predictions_file = <<>>
    /\ memory_events = <<>>
    /\ memory_events_file = <<>>
    /\ latest_prediction = <<>>
    /\ prediction_interval = 300
    /\ healing_events = <<>>
    /\ healing_events_file = <<>>
    /\ writers = <<>>
    /\ healing_history = <<>>
    /\ cache = <<>>
    /\ external_calls = 0
    /\ api_key \in BOOLEAN
    /\ obtained = <<>>
    /\ AgentConstructed("monitor")
    /\ call = [op |-> "init", phase |-> "return", n |-> 0]

NextCache == \E request \in Requests, delay \in Delays : Process(request, delay)

SpecCache == InitCache /\ [][NextCache]_vars

\* ------------------------------------------------- acquisition of a sample
\* memory counters as /proc/meminfo prints them, in kB
Page_kB == 16

Counters == {k * Page_kB : k \in 0..MaxCounter}

\* used_percent = (used / total) * 100 if total > 0 else 0, in quarter
\* percents (rounded down)
used_percent_of(used, total) == IF total > 0 THEN (used * 400) \div total ELSE 0

\* the outcome of a platform path: it raises, or it returns a sample
Raises == [raised |-> TRUE]

Sample(total, free, available, used, used_percent) ==
    [raised |-> FALSE, total |-> total, free |-> free, available |-> available,
     used |-> used, used_percent |-> used_percent, error |-> FALSE]

\* the zero-filled sample of the except branch of get_memory_stats
ErrorSample ==
    [raised |-> FALSE, total |-> 0, free |-> 0, available |-> 0, used |-> 0,
     used_percent |-> 0, error |-> TRUE]

\* what /proc/meminfo is when _get_memory_stats_linux reads it: readable or
\* not, every value an integer or not (int() raises ValueError), with or
\* without a MemAvailable line, and the counters in kB
MeminfoFiles ==
    [readable : {TRUE}, integers : {TRUE}, has_available : BOOLEAN,
     MemTotal : Counters, MemFree : Counters, Buffers : Counters, Cached : Counters,
     MemAvailable : Counters]
    \cup [readable : BOOLEAN, integers : {FALSE}, has_available : {TRUE},
          MemTotal : {0}, MemFree : {0}, Buffers : {0}, Cached : {0},
          MemAvailable : {0}]

\* used of _get_memory_stats_linux
used_linux(total, free, buffers, cached, available) == total - free - buffers - cached

\* _get_memory_stats_linux(): values are converted from kB to bytes
get_memory_stats_linux(meminfo) ==
    IF ~meminfo.readable \/ ~meminfo.integers THEN Raises
    ELSE LET total == meminfo.MemTotal * 1024
             free == meminfo.MemFree * 1024
             available == IF meminfo.has_available THEN meminfo.MemAvailable * 1024
                          ELSE free
             buffers == meminfo.Buffers * 1024
             cached == meminfo.Cached * 1024
             used == used_linux(total, free, buffers, cached, available)
         IN  Sample(total, free, available, used, used_percent_of(used, total))

\* what the macOS host answers: vm_stat prints its counters (in pages of
\* 4096 bytes), prints them in a form int() rejects, or exits with an error
\* and prints nothing; sysctl prints hw.memsize or nothing
MacHosts ==
    [vm_stat : {"ok", "unparsable", "failed"}, sysctl_ok : BOOLEAN,
     total : {4 * 1024 * 1024}, pages_free : {0, 256}, pages_inactive : {0, 256}]

\* _get_memory_stats_mac(): subprocess.run has no check=True and a value
\* int() rejects is passed over, so a counter that was not read counts as 0
get_memory_stats_mac(host) ==
    IF ~host.sysctl_ok THEN Raises
    ELSE LET page_size == 4096
             free == IF host.vm_stat = "ok" THEN host.pages_free * page_size ELSE 0
             inactive == IF host.vm_stat = "ok" THEN host.pages_inactive * page_size ELSE 0
             available == free + inactive
             used == host.total - available
         IN  Sample(host.total, free, available, used,
                    used_percent_of(used, host.total))

\* what GlobalMemoryStatusEx does: it fills the structure, or it fails and
\* leaves the structure zeroed (its return value is not read)
WindowsHosts ==
    [api_ok : BOOLEAN, ullTotalPhys : {4 * 1024 * 1024},
     ullAvailPhys : {1024 * 1024}, dwMemoryLoad : {75}]

\* _get_memory_stats_windows(): the sample has no free key
get_memory_stats_windows(host) ==
    IF host.api_ok
    THEN Sample(host.ullTotalPhys, 0, host.ullAvailPhys,
                host.ullTotalPhys - host.ullAvailPhys, Pct(host.dwMemoryLoad))
    ELSE Sample(0, 0, 0, 0, 0)

\* the hosts get_memory_stats runs on
Hosts ==
    [system : {"linux"}, host : MeminfoFiles]
    \cup [system : {"darwin"}, host : MacHosts]
    \cup [system : {"windows"}, host : WindowsHosts]
    \cup [system : {"freebsd"}, host : {<<>>}]

\* a failure of the platform path: a read, a parse or a system call of the
\* path did not succeed
PlatformFailure(h) ==
    CASE h.system = "linux" -> ~h.host.readable \/ ~h.host.integers
      [] h.system = "darwin" -> h.host.vm_stat # "ok" \/ ~h.host.sysctl_ok
      [] h.system = "windows" -> ~h.host.api_ok
      [] OTHER -> TRUE

\* _get_memory_stats_python()
get_memory_stats_python(h) ==
    CASE h.system = "linux" -> get_memory_stats_linux(h.host)
      [] h.system = "darwin" -> get_memory_stats_mac(h.host)
      [] h.system = "windows" -> get_memory_stats_windows(h.host)
      [] OTHER -> Raises

\* get_memory_stats() without the native library
get_memory_stats(h) ==
    LET stats == get_memory_stats_python(h)
    IN  IF stats.raised THEN ErrorSample ELSE stats

StatsCalls == {[op |-> "get_memory_stats", phase |-> "call", host |-> h] : h \in Hosts}

InitStats ==
    /\ Constructed
    /\ AgentConstructed("monitor")
    /\ prediction_interval = 300
    /\ call \in StatsCalls

\* memory_core.get_memory_stats()
GetMemoryStats ==
    /\ Calling("get_memory_stats")
    /\ call' = [op |-> "get_memory_stats", phase |-> "return", host |-> call.host,
                stats |-> get_memory_stats(call.host)]
    /\ UNCHANGED <<now, store_vars, predictor_vars, agent_vars, healer_vars, cache_vars>>

NextStats == GetMemoryStats

SpecStats == InitStats /\ [][NextStats]_vars

\* ------------------------------------- validation of acquired samples
\* hosts on which execute_actions takes its two samples: Linux hosts without
\* buffers or page cache, and one whose /proc/meminfo cannot be read
ValidationHosts ==
    {h \in Hosts :
        /\ h.system = "linux"
        /\ h.host.has_available
        /\ h.host.Buffers = 0 /\ h.host.Cached = 0
        /\ h.host.MemAvailable = h.host.MemFree
        /\ h.host.MemFree <= h.host.MemTotal}

\* results['memory_before'] and results['memory_after'] of execute_actions
\* are two calls of get_memory_stats()
ValidateCalls ==
    {[op |-> "validate_healing_results", phase |-> "call",
      results |-> [memory_before |-> get_memory_stats(b),
                   memory_after |-> get_memory_stats(a)]] :
        b \in ValidationHosts, a \in ValidationHosts}

InitValidate ==
    /\ Constructed
    /\ AgentConstructed("healer")
    /\ prediction_interval = 300
    /\ call \in ValidateCalls

NextValidate == ValidateHealingResults

SpecValidate == InitValidate /\ [][NextValidate]_vars

\* ----------------------------------------------------------- monitor loop
\* intervals start_monitoring is given (60 is the default; the argument is
\* stored as it comes, so an interval below 10 seconds is one of them)
MonitorIntervals == {5, 20, 60, 100}

\* a sample that is not a dict (the native library's JSON is passed on as
\* it parses): memory_stats.get raises AttributeError
NotADict == [not_a_dict |-> TRUE]

IsDict(memory_stats) == "not_a_dict" \notin DOMAIN memory_stats

\* samples get_memory_stats() hands to the monitor loop
MonitorLoopSamples ==
    {Stats(Pct(60), MiB500), Stats(Pct(90), MiB500), Stats(PctHalf(90), MiB500 - 1),
     NotADict}

\* the analysis the loop gets for its sample: the except branch of
\* analyze_memory_conditions for a sample that is not a dict
LoopAnalysis(memory_stats) ==
    IF IsDict(memory_stats)
    THEN analyze_memory_conditions(memory_stats, TRUE, [kind |-> "error"])
    ELSE [anomaly_detected |-> FALSE, severity |-> "unknown", usage_level |-> Absent,
          error |-> TRUE]

sleep_seconds_mut(used_percent, interval) ==
    IF used_percent >= Pct(90) THEN Max(10, interval \div 3) ELSE interval

\* the argument of time.sleep at the end of the try block of
\* _monitoring_loop
sleep_seconds(used_percent, interval) ==
    IF used_percent > Pct(90) THEN Max(10, interval \div 3) ELSE interval

\* one iteration of MemoryMonitorAgent._monitoring_loop of an agent with an
\* event store: the sample, its analysis, _log_memory_event,
\* RagPipeline.add_memory_event and the sleep; the test of used_percent
\* raises when the sample is not a dict, and the except branch sleeps
MonitorLoopTick ==
    /\ running
    /\ threads[1].tick < MaxTicks
    /\ \E memory_stats \in MonitorLoopSamples :
          LET analysis == LoopAnalysis(memory_stats)
              logged == [timestamp |-> now, stats |-> memory_stats, analysis |-> analysis]
              added == [timestamp |-> now + 1, stats |-> memory_stats,
                        analysis |-> analysis]
              failed == ~IsDict(memory_stats)
          IN  /\ memory_events' = Append(memory_events, added)
              /\ memory_events_file' = Append(Append(memory_events_file, logged), added)
              /\ call' = [op |-> "_monitoring_loop", phase |-> "return",
                          memory_stats |-> memory_stats, failed |-> failed,
                          seconds |-> IF failed THEN agent_interval
                                      ELSE sleep_seconds(memory_stats.used_percent,
                                                         agent_interval)]
    /\ now' = now + 2
    /\ threads' = <<[pc |-> "test", tick |-> threads[1].tick + 1]>>
    /\ UNCHANGED <<predictions, predictions_file, healing_events, healing_events_file,
                   writers, predictor_vars, agent, running, agent_interval, stopper,
                   healer_vars, cache_vars>>

\* a running monitor whose loop thread is at the loop test; the store has
\* just been constructed
InitMonitorLoop ==
    /\ Constructed
    /\ prediction_interval = 300
    /\ agent = "monitor"
    /\ running = TRUE
    /\ agent_interval \in MonitorIntervals
    /\ threads = <<[pc |-> "test", tick |-> 0]>>
    /\ stopper = [pc |-> "idle", waited |-> 0]
    /\ call = [op |-> "start_monitoring", phase |-> "return"]

NextMonitorLoop ==
    \/ MonitorLoopTick
    \/ BackgroundIngestion

SpecMonitorLoop == InitMonitorLoop /\ [][NextMonitorLoop]_vars

\* ============================================================ properties
\* C1: whatever list of actions execute_actions is given, directly or by
\* execute_priority_actions, the commands it hands to the shell are exactly
\* the commands of the custom_command actions whose command is 'sync' or
\* 'echo 3 > /proc/sys/vm/drop_caches', in order; for a custom_command
\* action with any other command nothing is run and its ActionResult has
\* success = false.
C1_OnlyAllowListedCommandsRun ==
    (call.phase = "return" /\ call.op \in {"execute_actions", "execute_priority_actions"}) =>
        LET allowed == {"sync", "echo 3 > /proc/sys/vm/drop_caches"}
            permitted == SelectSeq(call.actions,
                                   LAMBDA a : a.action_type = "custom_command"
                                              /\ a.command \in allowed)
            executed == call.results.executed_actions
        IN  /\ call.shell = [k \in 1..Len(permitted) |-> permitted[k].command]
            /\ \A k \in 1..Len(call.shell) : call.shell[k] \in allowed
            /\ \A i \in 1..Len(call.actions) :
                  (call.actions[i].action_type = "custom_command"
                   /\ call.actions[i].command \notin allowed)
                  => (i <= Len(executed) /\ ~executed[i].success)

\* a call that was given both a forbidden and a permitted command and ran
\* only the permitted one
C1_Witness ==
    /\ Returned("execute_actions")
    /\ call.actions = <<Action("custom_command", "high", "rm -rf /"),
                        Action("custom_command", "high", "sync")>>
    /\ call.shell = <<"sync">>
    /\ ~call.results.executed_actions[1].success

\* C2: in the plan _llm_enhanced_plan returns, every custom_command action
\* carries a command of the allow-list, every other custom_command action
\* of the reply (one without a command field included) is dropped, and
\* every kept action has one of the four action types.
C2_EnhancerPlanFiltered ==
    (Returned("_llm_enhanced_plan") /\ call.reply.kind = "object"
     /\ call.reply.has_actions = "list") =>
        LET allowed == {"sync", "echo 3 > /proc/sys/vm/drop_caches"}
            acceptable(a) ==
                /\ a.action_type \in {"clear_cache", "defragment", "optimize",
                                      "custom_command"}
                /\ a.action_type = "custom_command" => a.command \in allowed
            kept == call.enhanced_plan.actions
        IN  /\ \A i \in 1..Len(kept) : acceptable(kept[i])
            /\ kept = SelectSeq(call.reply.actions, acceptable)

\* C4: without a contribution of the enhancer the plan of
\* generate_healing_plan is decided by used_percent alone: above 95
\* critical with clear_cache(high) and defragment(high); above 85 up to 95
\* high with clear_cache(medium); above 75 up to 85 moderate with
\* optimize(low); up to 75 no action.
C4_RuleBasedPlanBands ==
    (Returned("generate_healing_plan")
     /\ (~call.rag \/ call.reply.kind \in {"error", "text"})) =>
        LET u == call.memory_stats.used_percent
            plan == call.healing_plan
        IN  /\ u > Pct(95) =>
                 /\ plan.severity = "critical"
                 /\ plan.actions = <<Action("clear_cache", "high", Absent),
                                     Action("defragment", "high", Absent)>>
            /\ (u > Pct(85) /\ u <= Pct(95)) =>
                 /\ plan.severity = "high"
                 /\ plan.actions = <<Action("clear_cache", "medium", Absent)>>
            /\ (u > Pct(75) /\ u <= Pct(85)) =>
                 /\ plan.severity = "moderate"
                 /\ plan.actions = <<Action("optimize", "low", Absent)>>
            /\ u <= Pct(75) => plan.actions = <<>>

\* a plan for exactly 95 percent: the boundary falls in the high band
C4_Witness ==
    /\ Returned("generate_healing_plan")
    /\ ~call.rag
    /\ call.memory_stats.used_percent = Pct(95)
    /\ call.healing_plan.severity = "high"
    /\ Len(call.healing_plan.actions) = 1

\* C5: validate_healing_results is decided by difference = before - after
\* alone: effective exactly when difference > 0, score 0.9 above 10, 0.7
\* above 5 up to 10, 0.3 above 0 up to 5, and 0.0 otherwise.
C5_ValidationBands ==
    Returned("validate_healing_results") =>
        LET difference == call.results.memory_before.used_percent
                          - call.results.memory_after.used_percent
            v == call.validation
        IN  /\ v.effective = (difference > 0)
            /\ difference > Pct(10) => v.effectiveness_score = 9
            /\ (difference > Pct(5) /\ difference <= Pct(10)) => v.effectiveness_score = 7
            /\ (difference > 0 /\ difference <= Pct(5)) => v.effectiveness_score = 3
            /\ difference <= 0 => v.effectiveness_score = 0

\* a validation of a drop of exactly 10 points, scored 0.7
C5_Witness ==
    /\ Returned("validate_healing_results")
    /\ call.results.memory_before.used_percent - call.results.memory_after.used_percent
         = Pct(10)
    /\ call.validation.effective
    /\ call.validation.effectiveness_score = 7

\* C6: execute_actions gives every action of its input one ActionResult,
\* in input order and with the same action_type, whether or not earlier
\* actions failed; the overall success is the conjunction of the action
\* successes, so it is false when an action has an unknown type or is a
\* rejected custom_command.
C6_EveryActionAttempted ==
    (call.phase = "return" /\ call.op \in {"execute_actions", "execute_priority_actions"}) =>
        LET executed == call.results.executed_actions
            known == {"clear_cache", "defragment", "optimize", "custom_command"}
        IN  /\ Len(executed) = Len(call.actions)
            /\ \A i \in 1..Len(executed) :
                  executed[i].action_type = call.actions[i].action_type
            /\ call.results.success = (\A i \in 1..Len(executed) : executed[i].success)
            /\ (\E i \in 1..Len(call.actions) :
                   \/ call.actions[i].action_type \notin known
                   \/ /\ call.actions[i].action_type = "custom_command"
                      /\ call.actions[i].command \notin
                            {"sync", "echo 3 > /proc/sys/vm/drop_caches"})
               => ~call.results.success

\* a call whose first action failed and whose second action still ran
C6_Witness ==
    /\ Returned("execute_actions")
    /\ Len(call.actions) = 2
    /\ Len(call.results.executed_actions) = 2
    /\ call.actions[1].action_type = "clear_cache"
    /\ ~call.results.executed_actions[1].success
    /\ call.results.executed_actions[2].action_type = "defragment"
    /\ call.results.executed_actions[2].success
    /\ ~call.results.success

\* C3: _should_execute_healing of a healer with an event store returns true
\* exactly when used_percent > 80 or the prediction with the latest
\* timestamp in the store has an issue of severity critical with
\* probability above 0.7; older predictions do not count.
C3_ShouldHealTrigger ==
    (Returned("_should_execute_healing") /\ call.rag) =>
        LET latest == CHOOSE p \in Range(predictions) :
                         \A q \in Range(predictions) : q.timestamp <= p.timestamp
        IN  call.should_heal =
               (\/ call.memory_stats.used_percent > Pct(80)
                \/ /\ predictions # <<>>
                   /\ \E issue \in Range(latest.predicted_issues) :
                         issue.severity = "critical" /\ issue.probability > 7)

\* a critical prediction superseded by a newer one without a critical
\* issue: no healing at 80 percent
C3_Witness ==
    /\ Returned("_should_execute_healing")
    /\ call.rag
    /\ call.memory_stats.used_percent = Pct(80)
    /\ Len(predictions) >= 2
    /\ predictions[1].predicted_issues = <<Issue("critical", 8)>>
    /\ predictions[Len(predictions)].predicted_issues = <<Issue("critical", 7)>>
    /\ ~call.should_heal

\* C7 as stated: the rule-based classification by used_percent and free
\* (usage_level critical above 90, high above 80, moderate above 60, else
\* normal; anomaly critical when used_percent > 90 and free < 500 MiB,
\* otherwise high when used_percent > 80, otherwise none), and the two
\* anomaly triggers are non-overlapping: no sample satisfies both.
C7_TriggersDisjoint ==
    (Returned("analyze_memory_conditions")
     /\ (~call.rag \/ call.reply.kind \in {"error", "text"})) =>
        LET u == call.memory_stats.used_percent
            f == call.memory_stats.free
            a == call.analysis
            critical == u > Pct(90) /\ f < 524288000
            high == u > Pct(80)
        IN  /\ a.usage_level = (IF u > Pct(90) THEN "critical"
                                ELSE IF u > Pct(80) THEN "high"
                                ELSE IF u > Pct(60) THEN "moderate" ELSE "normal")
            /\ critical => (a.anomaly_detected /\ a.severity = "critical")
            /\ (~critical /\ high) => (a.anomaly_detected /\ a.severity = "high")
            /\ (~critical /\ ~high) => (~a.anomaly_detected /\ a.severity = "normal")
            /\ ~(critical /\ high)

\* C7 as amended: the same classification; the two anomaly triggers
\* overlap (a sample that satisfies the first also satisfies the second)
\* and the first match wins, so such a sample is classified critical.
C7_FirstMatchWins ==
    (Returned("analyze_memory_conditions")
     /\ (~call.rag \/ call.reply.kind \in {"error", "text"})) =>
        LET u == call.memory_stats.used_percent
            f == call.memory_stats.free
            a == call.analysis
            critical == u > Pct(90) /\ f < 524288000
            high == u > Pct(80)
        IN  /\ a.usage_level = (IF u > Pct(90) THEN "critical"
                                ELSE IF u > Pct(80) THEN "high"
                                ELSE IF u > Pct(60) THEN "moderate" ELSE "normal")
            /\ critical => (a.anomaly_detected /\ a.severity = "critical")
            /\ (~critical /\ high) => (a.anomaly_detected /\ a.severity = "high")
            /\ (~critical /\ ~high) => (~a.anomaly_detected /\ a.severity = "normal")
            /\ critical => high

\* a sample that satisfies both triggers and is classified critical
C7_Witness ==
    /\ Returned("analyze_memory_conditions")
    /\ ~call.rag
    /\ call.memory_stats.used_percent = PctHalf(90)
    /\ call.memory_stats.free = 524288000 - 1
    /\ call.analysis.anomaly_detected
    /\ call.analysis.severity = "critical"
    /\ call.analysis.usage_level = "critical"

\* C8: when the enhancer contributes nothing, predict_memory_condition on
\* a history of at least 3 events whose last three values v1, v2, v3 are
\* non-zero sets predicted_1h to current + ((v2-v1)+(v3-v2))/2 *
\* (3600/interval) clamped to [0,100], with one issue {critical, 0.8} when
\* predicted_1h > 90, one issue {high, 0.7} when 80 < predicted_1h <= 90
\* and none otherwise; with fewer events or a zero value it sets no
\* predicted_1h and no issue.
C8_TrendExtrapolation ==
    (Returned("predict_memory_condition") /\ call.reply.kind \in {"error", "text"}) =>
        LET h == call.historical_data
            n == Len(h)
            p == call.prediction
        IN  IF n >= 3 /\ h[n-2].stats.used_percent # 0 /\ h[n-1].stats.used_percent # 0
               /\ h[n].stats.used_percent # 0
            THEN LET v1 == h[n-2].stats.used_percent
                     v2 == h[n-1].stats.used_percent
                     v3 == h[n].stats.used_percent
                     raw == call.current_stats.used_percent
                            + (((v2 - v1) + (v3 - v2)) * (3600 \div prediction_interval)) \div 2
                     clamped == IF raw > Pct(100) THEN Pct(100)
                                ELSE IF raw < 0 THEN 0 ELSE raw
                 IN  /\ p.has_1h
                     /\ p.predicted_memory_usage_1h = clamped
                     /\ clamped > Pct(90) => p.predicted_issues = <<Issue("critical", 8)>>
                     /\ (clamped > Pct(80) /\ clamped <= Pct(90))
                           => p.predicted_issues = <<Issue("high", 7)>>
                     /\ clamped <= Pct(80) => p.predicted_issues = <<>>
            ELSE ~p.has_1h /\ p.predicted_issues = <<>>

\* the history 60, 65, 70 at the default interval: predicted 100, critical
C8_Witness ==
    /\ Returned("predict_memory_condition")
    /\ call.reply.kind = "error"
    /\ prediction_interval = 300
    /\ call.current_stats.used_percent = Pct(70)
    /\ Len(call.historical_data) = 3
    /\ call.historical_data[1].stats.used_percent = Pct(60)
    /\ call.historical_data[2].stats.used_percent = Pct(65)
    /\ call.historical_data[3].stats.used_percent = Pct(70)
    /\ call.prediction.predicted_memory_usage_1h = Pct(100)
    /\ call.prediction.predicted_issues = <<Issue("critical", 8)>>

\* C9: in an iteration of the predictor loop the three values the trend is
\* computed from are the used_percent of the three most recent samples of
\* the event store, oldest first, so that samples that rise give a
\* positive trend.
C9_TrendFromLatestSamples ==
    (Returned("_prediction_loop") /\ Len(memory_events) >= 3) =>
        LET n == Len(memory_events)
            v1 == memory_events[n-2].stats.used_percent
            v2 == memory_events[n-1].stats.used_percent
            v3 == memory_events[n].stats.used_percent
        IN  /\ memory_events[n-2].timestamp < memory_events[n-1].timestamp
            /\ memory_events[n-1].timestamp < memory_events[n].timestamp
            /\ call.recent_values = <<v1, v2, v3>>
            /\ (v1 < v2 /\ v2 < v3) => trend(call.recent_values) > 0

\* C10: when predict_memory_condition merges an enhancer reply, the issues
\* and the truthy fields of the rule-based prediction are all in the
\* result: predicted_issues holds the issues of both, and the reply
\* replaces no value the rule-based prediction set.
C10_BaselineKept ==
    (Returned("predict_memory_condition") /\ call.reply.kind = "object") =>
        LET base == basic_prediction(call.current_stats, call.historical_data,
                                     prediction_interval, now)
            p == call.prediction
        IN  /\ Range(p.predicted_issues)
                 = Range(base.predicted_issues) \cup Range(call.reply.issues)
            /\ (base.has_1h /\ base.predicted_memory_usage_1h # 0)
                 => p.predicted_memory_usage_1h = base.predicted_memory_usage_1h
            /\ p.current_memory_used = base.current_memory_used
            /\ p.timestamp = base.timestamp

\* C11: whatever the enhancer replies, the anomaly_detected and severity of
\* the analysis analyze_memory_conditions returns are those of the
\* rule-based classification of the sample.
C11_SafetyFieldsKept ==
    Returned("analyze_memory_conditions") =>
        LET a == anomaly(call.memory_stats.used_percent, call.memory_stats.free)
        IN  /\ call.analysis.anomaly_detected = a.anomaly_detected
            /\ call.analysis.severity = a.severity

\* C12: a failure of a step of a tick never ends the loop of the monitor,
\* the predictor or the healer.  In every step a loop thread inside an
\* iteration stays in the iteration or goes to sleep, whether the call
\* returned or raised; a sleeping thread goes back to the loop test; the
\* loop test of an agent that has not been stopped starts an iteration; a
\* thread ends only at the loop test of a stopped agent.  And a failed tick
\* is followed by a sleep and, unless the agent is stopped, by another tick.
C12_LoopSurvivesFailure ==
    /\ [][\A t \in 1..Len(threads) :
            threads'[t] # threads[t] =>
                /\ threads[t].pc = "body" => threads'[t].pc \in {"body", "sleep"}
                /\ threads[t].pc = "sleep" => threads'[t].pc = "test"
                /\ (threads[t].pc = "test" /\ running) => threads'[t].pc = "body"
                /\ threads'[t].pc = "done" => (threads[t].pc = "test" /\ ~running)]_vars
    /\ \A t \in 1..MaxThreads :
          (t <= Len(threads) /\ threads[t].pc = "sleep" /\ threads[t].failed)
             ~> (~running \/ (t <= Len(threads) /\ threads[t].pc = "body"))

\* a tick in progress in a thread whose previous tick failed
C12_Witness ==
    /\ running
    /\ threads # <<>>
    /\ threads[1].pc = "body"
    /\ threads[1].failed
    /\ threads[1].step = 2

C15_IndexCapped ==
    LET recent(index, file) ==
            LET parsed == SelectSeq(file, JsonLoads)
            IN  Len(index) <= Len(parsed) /\ index = LastN(parsed, Len(index))
    IN  /\ Len(memory_events) <= 100
        /\ Len(predictions) <= 100
        /\ Len(healing_events) <= 100
        /\ recent(memory_events, memory_events_file)
        /\ recent(predictions, predictions_file)
        /\ recent(healing_events, healing_events_file)

\* C17: after a refresh no index holds a malformed line, and every
\* well-formed line among the last 100 lines of a log file is in its index,
\* in file order, whatever malformed lines stand between them; a query
\* never returns a malformed line.
C17_MalformedSkipped ==
    LET loaded(index, file) ==
            LET tail == LastN(file, 100)
                good == {i \in 1..Len(tail) : "malformed" \notin DOMAIN tail[i]}
            IN  /\ \A r \in Range(index) : "malformed" \notin DOMAIN r
                /\ Len(index) = Cardinality(good)
                /\ \A i \in good : \E k \in 1..Len(index) :
                      /\ index[k] = tail[i]
                      /\ k = Cardinality({j \in good : j <= i})
    IN  /\ (call.op = "_background_ingestion" /\ call.phase = "return") =>
               /\ loaded(memory_events, memory_events_file)
               /\ loaded(predictions, predictions_file)
               /\ loaded(healing_events, healing_events_file)
        /\ (call.op \in {"get_relevant_memory_events", "get_recent_predictions"}
            /\ call.phase = "return") =>
               \A r \in Range(call.result) : "malformed" \notin DOMAIN r

\* a log of three lines whose second line is malformed: the refresh has
\* loaded the first and the third
C17_Witness ==
    /\ call.op = "_background_ingestion"
    /\ call.phase = "return"
    /\ Len(memory_events_file) = 3
    /\ "malformed" \in DOMAIN memory_events_file[2]
    /\ memory_events = <<memory_events_file[1], memory_events_file[3]>>

\* C16: appends to one log file are serialized: no two writers are inside
\* the write of a line to the same file at once, and no line of the file is
\* an interleaving of two records.
C16_WritesSerialized ==
    /\ Cardinality(InsideWrite) <= 1
    /\ \A i \in 1..Len(memory_events_file) :
          \/ JsonLoads(memory_events_file[i])
          \/ /\ i = Len(memory_events_file)
             /\ Unterminated(memory_events_file)
             /\ ~memory_events_file[i].mixed

\* C18: the healing history holds at most 100 entries, in arrival order
\* (their timestamps rise), and every _add_to_healing_history puts the new
\* entry at the end and drops exactly the oldest entry when the history was
\* full, nothing otherwise: the history is always the most recent entries.
C18_HistoryBounded ==
    /\ [](/\ Len(healing_history) <= max_history_size
          /\ \A i \in 1..Len(healing_history) - 1 :
                healing_history[i].timestamp < healing_history[i + 1].timestamp)
    /\ [][threads[1].pc = "history" /\ threads'[1].pc # "history" =>
            LET th == threads[1]
                entry == HistoryEntry(now, th.memory_stats, th.healing_plan, th.validation)
            IN  healing_history' =
                   IF Len(healing_history) = max_history_size
                   THEN Append(Tail(healing_history), entry)
                   ELSE Append(healing_history, entry)]_vars

\* a full history has taken two more entries: the two oldest are gone
C18_Witness ==
    /\ call.op = "_add_to_healing_history"
    /\ Len(healing_history) = max_history_size
    /\ healing_history[1].timestamp = 3 - max_history_size
    /\ healing_history[max_history_size].timestamp >= 1

C20_CacheContract ==
    [][call'.n # call.n =>
          LET request == call'.request
          IN  IF /\ request \in DOMAIN obtained
                 /\ now' - obtained[request].time <= cache_ttl
              THEN /\ call'.response = obtained[request].response
                   /\ call'.posted = 0
                   /\ external_calls' = external_calls
              ELSE /\ call'.posted = 1
                   /\ external_calls' = external_calls + 1]_vars

\* C21: when the enhancer's reply is an error text, is not JSON or is JSON
\* but not an object, analyze_memory_conditions returns exactly the
\* rule-based analysis of the sample.
C21_DegradesToBaseline ==
    /\ Returned("analyze_memory_conditions")
    /\ call.rag
    /\ call.reply.kind \in {"error", "text", "array"}
    => call.analysis =
          analyze_memory_conditions(call.memory_stats, FALSE, [kind |-> "error"])

\* C22: when the enhancer's reply is an error text, is not JSON or is JSON
\* but not an object, the plan generate_healing_plan returns has exactly the
\* actions and the severity of the rule-based plan for the sample's
\* used_percent.
C22_PlanDegradesToBaseline ==
    /\ Returned("generate_healing_plan")
    /\ call.rag
    /\ call.reply.kind \in {"error", "text", "array"}
    => LET base == rule_based_plan(call.memory_stats.used_percent)
       IN  /\ call.healing_plan.actions = base.actions
           /\ call.healing_plan.severity = base.severity

\* C23: get_memory_stats raises nothing, and when a read, a parse or a
\* system call of the platform path fails the sample it returns has total,
\* free, available, used and used_percent 0 and carries the error marker.
C23_FailureGivesErrorSample ==
    Returned("get_memory_stats") =>
        /\ ~call.stats.raised
        /\ PlatformFailure(call.host) => call.stats = ErrorSample

\* C24: for /proc/meminfo counters that parse, the sample has
\* used = total - free - buffers - cached, used = total - available,
\* used >= 0, 0 <= used_percent <= 100, and used_percent = 0 when total = 0.
C24_LinuxSampleWellFormed ==
    /\ Returned("get_memory_stats")
    /\ call.host.system = "linux"
    /\ ~PlatformFailure(call.host)
    => LET m == call.host.host
           s == call.stats
       IN  /\ s.used = s.total - s.free - m.Buffers * 1024 - m.Cached * 1024
           /\ s.used = s.total - s.available
           /\ s.used >= 0
           /\ s.used_percent >= 0
           /\ s.used_percent <= Pct(100)
           /\ s.total = 0 => s.used_percent = 0

\* C25 as stated: after a successful tick the monitor sleeps a third of the
\* interval, but at least 10 seconds, when the tick's used_percent is above
\* 90, and the interval otherwise; after a failed tick it sleeps the interval.
C25_SleepExactThird ==
    Returned("_monitoring_loop") =>
        IF ~call.failed /\ call.memory_stats.used_percent > Pct(90)
        THEN 3 * call.seconds = Max(30, agent_interval)
        ELSE call.seconds = agent_interval

\* C25, amended: the shortened sleep is max(10, interval // 3), the third
\* of the interval rounded down to whole seconds.
C25_SleepFloorThird ==
    Returned("_monitoring_loop") =>
        IF ~call.failed /\ call.memory_stats.used_percent > Pct(90)
        THEN call.seconds = Max(10, agent_interval \div 3)
        ELSE call.seconds = agent_interval

\* a tick at 90.5 percent of a monitor started with an interval of 100
\* seconds has slept 33 seconds
C25_Witness ==
    /\ Returned("_monitoring_loop")
    /\ ~call.failed
    /\ call.memory_stats.used_percent = PctHalf(90)
    /\ agent_interval = 100
    /\ call.seconds = 33

\* C28: every tick of the monitor loop adds exactly one record to the
\* memory-event log, and after a refresh the index holds one record for each
\* tick.
C28_OneRecordPerTick ==
    /\ Len(memory_events_file) = threads[1].tick
    /\ Returned("_background_ingestion") => Len(memory_events) = threads[1].tick

\* C26: every tick of the healer loop that begins reaches its sleep,
\* whether or not the enhancer service and the host commands ever answer.
C26_TickReachesSleep ==
    threads[1].pc = "should" ~> threads[1].pc = "sleep"

\* C27: execute_priority_actions runs the actions of the plan whose
\* priority is high, each once and in plan order, and no other action: the
\* k-th action it executes is the k-th high-priority action of the plan, and
\* only commands of those actions reach the shell.  The urgent plan has
\* severity critical and the actions clear_cache(high), defragment(high),
\* whatever the sample is.
C27_PriorityAndUrgent ==
    /\ Returned("execute_priority_actions") =>
          LET plan == call.plan_actions
              high == {i \in 1..Len(plan) : plan[i].priority = "high"}
              rank(i) == Cardinality({j \in high : j <= i})
              executed == call.results.executed_actions
          IN  /\ Len(executed) = Cardinality(high)
              /\ \A i \in high :
                    /\ call.actions[rank(i)] = plan[i]
                    /\ executed[rank(i)].action_type = plan[i].action_type
              /\ \A k \in 1..Len(call.shell) :
                    \E i \in high : RunsShell(plan[i]) /\ plan[i].command = call.shell[k]
    /\ Returned("generate_urgent_healing_plan") =>
          /\ call.healing_plan.severity = "critical"
          /\ call.healing_plan.actions =
                <<Action("clear_cache", "high", Absent), Action("defragment", "high", Absent)>>

\* a plan whose first action has medium priority and whose second has high
\* priority: only the second was executed
C27_Witness ==
    /\ Returned("execute_priority_actions")
    /\ Len(call.plan_actions) = 2
    /\ call.plan_actions[1].priority = "medium"
    /\ call.plan_actions[2].priority = "high"
    /\ Len(call.results.executed_actions) = 1
    /\ call.results.executed_actions[1].action_type = call.plan_actions[2].action_type

\* C29: in a tick of the healer loop whose sample is at or below 80 percent
\* and that heals because the latest prediction holds a critical issue with
\* probability above 0.7, a plan with the rule-based actions has at least one
\* action, so the tick goes on to execute it (and to record it).
C29_PreemptiveHealingActs ==
    [][LET th == threads[1]
       IN  /\ th.pc = "plan"
           /\ threads'[1].pc # "plan"
           /\ th.memory_stats.used_percent <= Pct(80)
           /\ threads'[1].healing_plan.actions =
                 rule_based_plan(th.memory_stats.used_percent).actions
           => /\ threads'[1].pc = "execute"
              /\ Len(threads'[1].healing_plan.actions) >= 1]_vars

\* C30: when memory_before or memory_after of a healing result is the
\* zero-filled error sample of a failed acquisition, validate_healing_results
\* reports neither effective = true nor a positive effectiveness_score.
C30_ErrorSampleNotEffective ==
    Returned("validate_healing_results")
    /\ (call.results.memory_before.error \/ call.results.memory_after.error)
    => /\ ~call.validation.effective
       /\ call.validation.effectiveness_score <= 0

\* C31: a tick of the healer loop executes actions only if
\* _should_execute_healing answered true for the tick's sample and the plan
\* has at least one action; the healing-event log and the healing history
\* change only in the record steps of a tick that has executed its plan.
C31_ActsOnlyWhenShouldAndPlanned ==
    [][LET th == threads'[1]
       IN  /\ th.pc \in {"execute", "validate", "log", "history"}
              => /\ should_execute_healing(th.memory_stats, TRUE, predictions)
                 /\ Len(th.healing_plan.actions) >= 1
           /\ (healing_events_file' # healing_events_file
               \/ healing_history' # healing_history)
              => /\ threads[1].pc \in {"log", "history"}
                 /\ threads[1].results # Unbound
                 /\ threads[1].tick = th.tick]_vars

\* the second tick ended without a plan being executed and left the one
\* event of the first tick alone
C31_Witness ==
    /\ threads[1].pc = "sleep"
    /\ threads[1].tick = 2
    /\ threads[1].results = Unbound
    /\ Len(healing_events_file) = 1

C34_PressureNeverSlower ==
    Returned("_monitoring_loop") /\ ~call.failed
    /\ call.memory_stats.used_percent > Pct(90)
    => call.seconds <= sleep_seconds(Pct(90), agent_interval)

\* C35: after any sequence of start and stop calls of an agent, at most one
\* of the loop threads the agent has created has not ended.
C35_OneLiveThread ==
    Cardinality({t \in 1..Len(threads) : threads[t].pc # "done"}) <= 1

\* C36: a start call on an agent whose running flag is set creates no
\* thread and leaves the flag and the configured interval as they were,
\* whatever interval the call passes.
C36_StartWhileRunningIsNoOp ==
    [][call'.op = "start" /\ call' # call /\ running
       => /\ ~call'.started
          /\ UNCHANGED <<running, agent_interval, threads>>]_vars

\* a start call on a running agent has returned; it passed an interval other
\* than the configured one
C36_Witness ==
    /\ call.op = "start"
    /\ ~call.started
    /\ running
    /\ threads # <<>>
    /\ call.interval # agent_interval

\* C37: a query for the recent memory events that runs while a refresh of
\* the index is in progress returns every record that is both in the index
\* as it was before the refresh and in the lines the refresh loads (the
\* limit of the query being no smaller than the number of records).
C37_QueryDuringRefresh ==
    [][LET th == threads[1]
           loaded == SelectSeq(LastN(th.lines, index_cap), JsonLoads)
       IN  /\ call'.op = "get_relevant_memory_events"
           /\ th.pc # "idle"
           /\ call'.limit >= Len(memory_events_file)
           => \A r \in Range(th.before) \cap Range(loaded) :
                 r \in Range(call'.result)]_vars

\* C38: when no refresh is in progress, every memory event appended with
\* add_memory_event since construction is in the index exactly once.
C38_AppendSurvivesRefresh ==
    threads[1].pc = "idle" =>
        \A k \in 1..Len(memory_events_file) :
            memory_events_file[k].timestamp >= 1 =>
                Cardinality({j \in 1..Len(memory_events) :
                                memory_events[j] = memory_events_file[k]}) = 1

\* C39: the cache of the enhancer holds no response of a call that ended in
\* an error outcome, and process() never answers a request from the cache
\* with an error text.
C39_ErrorsNotCached ==
    /\ \A key \in DOMAIN cache : cache[key].response \notin ErrorOutcomes
    /\ Returned("process") /\ call.n >= 1 /\ call.posted = 0 /\ api_key
       => call.response \notin ErrorOutcomes

====
